---- MODULE Spec2Model ----
(***************************************************************************)
(* Model of the snake game (src/game.js) and of its score service          *)
(* (submit-score and get-leaderboard functions).                           *)
(*                                                                         *)
(* The client is single threaded: every event handler (key press, start    *)
(* command, timer callback) runs to completion, so each handler is one     *)
(* action.  Pending setTimeout callbacks are kept in the timer table       *)
(* `timers`; the random draws of Food.generate are inputs of the actions.  *)
(***************************************************************************)
EXTENDS Integers, Sequences, FiniteSets, TLC

\* ------------------------------------------------------------------------
\* Bounds of the model
\* ------------------------------------------------------------------------

\* CONFIG.GRID_SIZE is 20 in src/game.js:5; the board is scaled down so that
\* every snake shape on it can be enumerated.  Every definition below is
\* written in terms of GRID_SIZE, as the code is.
GRID_SIZE == 4

\* Most food captures explored in one game (a tick that would capture one more
\* is not taken).
MaxFood == 2

\* ------------------------------------------------------------------------
\* Configuration constants (CONFIG)
\* ------------------------------------------------------------------------
MIN_SPEED == 50

POINTS_PER_FOOD == 10

INITIAL_SNAKE_LENGTH == 3

DIFFICULTY ==
    [ EASY   |-> [foodTimeout |-> 7000, initialSpeed |-> 200, speedIncrement |-> 3],
      MEDIUM |-> [foodTimeout |-> 5000, initialSpeed |-> 150, speedIncrement |-> 5],
      HARD   |-> [foodTimeout |-> 3000, initialSpeed |-> 100, speedIncrement |-> 8] ]

DifficultyKeys == {"EASY", "MEDIUM", "HARD"}

\* The difficulty buttons the player of the model clicks.
DifficultyButtons == {"EASY", "HARD"}

\* The value of a field that holds null in the code (difficultyKey, timer ids).
Null == "null"

NoTimer == 0

\* ------------------------------------------------------------------------
\* Vectors and cells
\* ------------------------------------------------------------------------
Vec(x, y) == [x |-> x, y |-> y]

Cells == {Vec(x, y) : x \in 0 .. GRID_SIZE - 1, y \in 0 .. GRID_SIZE - 1}

\* keyMap / swipe directions: up, down, left, right.
KeyDirections == {Vec(0, -1), Vec(0, 1), Vec(-1, 0), Vec(1, 0)}

Max(a, b) == IF a >= b THEN a ELSE b

\* ------------------------------------------------------------------------
\* State
\* ------------------------------------------------------------------------
VARIABLES
    gameState,   \* the gameState object of src/game.js
    timers,      \* the browser's pending setTimeout callbacks: records [id, cb]
    submission,  \* submit-score: the request body being validated
    serverNow,   \* submit-score: Date.now() as validateScore reads it
    validation,  \* submit-score: the result of validateScore
    rateLimitMap,\* submit-score: the rate limiter's map, per source address
    store,       \* the "scores" blob of the leaderboard store
    requests,    \* submit-score: the runs of the handler in progress
    arrivals,    \* submit-score: the requests received so far, in order
    playTime,    \* Date.now() - gameState.gameStartTime, in milliseconds
    leaderboard, \* gameState.leaderboard
    paths,       \* the calls of Game.gameOver that are past their first await
    cachedData,  \* get-leaderboard: the cached blob
    cacheTimestamp, \* get-leaderboard: the time the cache is dated
    refresher,   \* get-leaderboard: arrival time of the request that last set the cache
    queries      \* get-leaderboard: the runs of the handler in progress

gameVars == <<gameState, timers>>

serviceVars == <<submission, serverNow, validation>>

submitVars == <<rateLimitMap, store, requests, arrivals>>

sessionVars == <<playTime, leaderboard, paths>>

queryVars == <<cachedData, cacheTimestamp, refresher, queries>>

vars == <<gameState, timers, submission, serverNow, validation,
          rateLimitMap, store, requests, arrivals,
          playTime, leaderboard, paths,
          cachedData, cacheTimestamp, refresher, queries>>

\* The client's variables as one value, threaded through the handlers' calls.
World == [gameState |-> gameState, timers |-> timers]

\* The difficulty object selected (gameState.difficulty).
DifficultyOf(g) == DIFFICULTY[g.difficultyKey]

\* ------------------------------------------------------------------------
\* Browser timers
\* ------------------------------------------------------------------------
PendingIds(w) == {t.id : t \in w.timers}

\* setTimeout returns an id that no pending timer has; `held` are the ids the
\* program still holds in other fields (they may be stale, and are never handed
\* out again by the browser).
FreshId(w, held) ==
    CHOOSE i \in 1 .. Cardinality(w.timers) + Cardinality(held) + 1 :
        /\ i \notin PendingIds(w) \cup held
        /\ \A j \in 1 .. i - 1 : j \in PendingIds(w) \cup held

ClearTimeout(w, id) == [w EXCEPT !.timers = {t \in w.timers : t.id # id}]

\* ------------------------------------------------------------------------
\* Snake module
\* ------------------------------------------------------------------------
\* Variant: the segments are laid out two cells apart.
SnakeInitializeSpaced(g) ==
    LET centerX == GRID_SIZE \div 2
        centerY == GRID_SIZE \div 2
    IN  [g EXCEPT
            !.snake = [i \in 1 .. INITIAL_SNAKE_LENGTH |-> Vec(centerX - 2 * (i - 1), centerY)],
            !.direction = Vec(1, 0),
            !.nextDirection = Vec(1, 0),
            !.shouldGrow = FALSE]

SnakeInitialize(g) ==
    LET centerX == GRID_SIZE \div 2
        centerY == GRID_SIZE \div 2
    IN  [g EXCEPT
            !.snake = [i \in 1 .. INITIAL_SNAKE_LENGTH |-> Vec(centerX - (i - 1), centerY)],
            !.direction = Vec(1, 0),
            !.nextDirection = Vec(1, 0),
            !.shouldGrow = FALSE]

\* Variant: the new head is computed from the direction of the previous tick.
SnakeMoveStaleDirection(g) ==
    LET head      == g.snake[1]
        newHead   == Vec(head.x + g.direction.x, head.y + g.direction.y)
        unshifted == <<newHead>> \o g.snake
    IN  [g EXCEPT
            !.direction = g.nextDirection,
            !.snake = IF ~g.shouldGrow
                        THEN SubSeq(unshifted, 1, Len(unshifted) - 1)
                        ELSE unshifted,
            !.shouldGrow = FALSE]

\* Variant: the growth flag is not cleared after the tail has been kept.
SnakeMoveKeepsGrowing(g) ==
    LET direction == g.nextDirection
        head      == g.snake[1]
        newHead   == Vec(head.x + direction.x, head.y + direction.y)
        unshifted == <<newHead>> \o g.snake
    IN  [g EXCEPT
            !.direction = direction,
            !.snake = IF ~g.shouldGrow
                        THEN SubSeq(unshifted, 1, Len(unshifted) - 1)
                        ELSE unshifted]

SnakeMove(g) ==
    LET direction == g.nextDirection
        head      == g.snake[1]
        newHead   == Vec(head.x + direction.x, head.y + direction.y)
        unshifted == <<newHead>> \o g.snake
    IN  [g EXCEPT
            !.direction = direction,
            !.snake = IF ~g.shouldGrow
                        THEN SubSeq(unshifted, 1, Len(unshifted) - 1)
                        ELSE unshifted,
            !.shouldGrow = FALSE]

SnakeGrow(g) == [g EXCEPT !.shouldGrow = TRUE]

CheckSelfCollision(g) ==
    \E i \in 2 .. Len(g.snake) : g.snake[1] = g.snake[i]

CheckWallCollision(g) ==
    LET head == g.snake[1]
    IN  head.x < 0 \/ head.x >= GRID_SIZE \/ head.y < 0 \/ head.y >= GRID_SIZE

\* ------------------------------------------------------------------------
\* Food module
\* ------------------------------------------------------------------------
IsOnSnake(g, c) == \E i \in 1 .. Len(g.snake) : g.snake[i] = c

\* Variant: the first draw is taken, on the snake or not.
FoodDrawAnyCell(g) == Cells

\* The cells the do-while loop of Food.generate can leave with: a draw on the
\* snake is drawn again.
FoodDraw(g) == {c \in Cells : ~IsOnSnake(g, c)}

FoodClearTimer(w) ==
    IF w.gameState.foodTimerId # NoTimer
        THEN [ClearTimeout(w, w.gameState.foodTimerId) EXCEPT !.gameState.foodTimerId = NoTimer]
        ELSE w

FoodStartTimer(w) ==
    LET w1 == FoodClearTimer(w)
    IN  IF w1.gameState.isPlaying /\ w1.gameState.difficultyKey # Null
            THEN LET id == FreshId(w1, {w1.gameState.gameLoopId})
                 IN  [w1 EXCEPT !.timers = @ \cup {[id |-> id, cb |-> "relocate"]},
                                !.gameState.foodTimerId = id]
            ELSE w1

\* c is the draw the loop ends with.
FoodGenerate(w, c) == FoodStartTimer([w EXCEPT !.gameState.food = c])

FoodRelocate(w, c) == FoodGenerate(w, c)

FoodCheckCollision(g) == g.snake[1] = g.food

FoodRegenerate(w, c) == FoodGenerate(FoodClearTimer(w), c)

\* ------------------------------------------------------------------------
\* Input module
\* ------------------------------------------------------------------------
\* Variant: the request is compared with the buffered direction.
IsOppositeOfBuffered(g, newDirection) ==
    \/ (newDirection.x = -g.nextDirection.x /\ newDirection.x # 0)
    \/ (newDirection.y = -g.nextDirection.y /\ newDirection.y # 0)

IsOpposite(g, newDirection) ==
    \/ (newDirection.x = -g.direction.x /\ newDirection.x # 0)
    \/ (newDirection.y = -g.direction.y /\ newDirection.y # 0)

InputSetDirection(g, newDirection) ==
    IF ~IsOpposite(g, newDirection)
        THEN [g EXCEPT !.nextDirection = newDirection]
        ELSE g

\* ------------------------------------------------------------------------
\* Game module
\* ------------------------------------------------------------------------
GameSelectDifficulty(g, difficultyLevel) ==
    [g EXCEPT !.difficultyKey = difficultyLevel]

\* Variant: the score of the previous game is kept.
GameResetKeepsScore(w) ==
    LET w1 == IF w.gameState.gameLoopId # NoTimer
                  THEN ClearTimeout(w, w.gameState.gameLoopId)
                  ELSE w
        w2 == FoodClearTimer(w1)
    IN  [w2 EXCEPT !.gameState.isPlaying = FALSE,
                   !.gameState.shouldGrow = FALSE]

GameReset(w) ==
    LET w1 == IF w.gameState.gameLoopId # NoTimer
                  THEN ClearTimeout(w, w.gameState.gameLoopId)
                  ELSE w
        w2 == FoodClearTimer(w1)
    IN  [w2 EXCEPT !.gameState.score = 0,
                   !.gameState.isPlaying = FALSE,
                   !.gameState.shouldGrow = FALSE]

\* Variant: the food timer is left running.
GameGameOverKeepsFoodTimer(w) ==
    LET w1 == [w EXCEPT !.gameState.isPlaying = FALSE]
    IN  IF w1.gameState.gameLoopId # NoTimer
            THEN ClearTimeout(w1, w1.gameState.gameLoopId)
            ELSE w1

\* The synchronous part of Game.gameOver, up to its first await.
GameGameOver(w) ==
    LET w1 == [w EXCEPT !.gameState.isPlaying = FALSE]
        w2 == IF w1.gameState.gameLoopId # NoTimer
                  THEN ClearTimeout(w1, w1.gameState.gameLoopId)
                  ELSE w1
    IN  FoodClearTimer(w2)

\* The food capture branch of Game.loop.
\* Variant: the new speed is not held at MIN_SPEED.
GameLoopCaptureNoFloor(w, c) ==
    LET w1 == [w EXCEPT !.gameState = SnakeGrow(@)]
        w2 == [w1 EXCEPT !.gameState.score = @ + POINTS_PER_FOOD]
        w3 == FoodRegenerate(w2, c)
    IN  [w3 EXCEPT !.gameState.speed = @ - DifficultyOf(w3.gameState).speedIncrement]

\* Variant: Snake.grow() is not called.
GameLoopCaptureNoGrow(w, c) ==
    LET w2 == [w EXCEPT !.gameState.score = @ + POINTS_PER_FOOD]
        w3 == FoodRegenerate(w2, c)
    IN  [w3 EXCEPT !.gameState.speed =
            Max(MIN_SPEED, @ - DifficultyOf(w3.gameState).speedIncrement)]

GameLoopCapture(w, c) ==
    LET w1 == [w EXCEPT !.gameState = SnakeGrow(@)]
        w2 == [w1 EXCEPT !.gameState.score = @ + POINTS_PER_FOOD]
        w3 == FoodRegenerate(w2, c)
    IN  [w3 EXCEPT !.gameState.speed =
            Max(MIN_SPEED, @ - DifficultyOf(w3.gameState).speedIncrement)]

\* Variant: the return after this.gameOver() is missing, so the next frame
\* is scheduled after a collision too.
GameLoopSchedulesAfterCollision(w, c) ==
    IF ~w.gameState.isPlaying
        THEN w
        ELSE LET w1 == [w EXCEPT !.gameState = SnakeMove(@)]
                 w2 == IF CheckWallCollision(w1.gameState) \/ CheckSelfCollision(w1.gameState)
                           THEN GameGameOver(w1)
                       ELSE IF FoodCheckCollision(w1.gameState)
                           THEN GameLoopCapture(w1, c)
                       ELSE w1
                 id == FreshId(w2, {w2.gameState.foodTimerId})
             IN  [w2 EXCEPT !.timers = @ \cup {[id |-> id, cb |-> "loop"]},
                            !.gameState.gameLoopId = id]

\* Variant: the body is checked with the new head added and the tail still
\* in place.
GameLoopChecksBeforePop(w, c) ==
    IF ~w.gameState.isPlaying
        THEN w
        ELSE LET w1 == [w EXCEPT !.gameState = SnakeMove(@)]
                 unshifted == [w1.gameState EXCEPT
                                  !.snake = <<w1.gameState.snake[1]>> \o w.gameState.snake]
             IN  IF CheckWallCollision(w1.gameState) \/ CheckSelfCollision(unshifted)
                     THEN GameGameOver(w1)
                     ELSE LET w2 == IF FoodCheckCollision(w1.gameState)
                                        THEN GameLoopCapture(w1, c)
                                        ELSE w1
                              id == FreshId(w2, {w2.gameState.foodTimerId})
                          IN  [w2 EXCEPT !.timers = @ \cup {[id |-> id, cb |-> "loop"]},
                                         !.gameState.gameLoopId = id]

\* Variant: only the wall ends the game.
GameLoopWallOnly(w, c) ==
    IF ~w.gameState.isPlaying
        THEN w
        ELSE LET w1 == [w EXCEPT !.gameState = SnakeMove(@)]
             IN  IF CheckWallCollision(w1.gameState)
                     THEN GameGameOver(w1)
                     ELSE LET w2 == IF FoodCheckCollision(w1.gameState)
                                        THEN GameLoopCapture(w1, c)
                                        ELSE w1
                              id == FreshId(w2, {w2.gameState.foodTimerId})
                          IN  [w2 EXCEPT !.timers = @ \cup {[id |-> id, cb |-> "loop"]},
                                         !.gameState.gameLoopId = id]

GameLoop(w, c) ==
    IF ~w.gameState.isPlaying
        THEN w
        ELSE LET w1 == [w EXCEPT !.gameState = SnakeMove(@)]
             IN  IF CheckWallCollision(w1.gameState) \/ CheckSelfCollision(w1.gameState)
                     THEN GameGameOver(w1)
                     ELSE LET w2 == IF FoodCheckCollision(w1.gameState)
                                        THEN GameLoopCapture(w1, c)
                                        ELSE w1
                              id == FreshId(w2, {w2.gameState.foodTimerId})
                          IN  [w2 EXCEPT !.timers = @ \cup {[id |-> id, cb |-> "loop"]},
                                         !.gameState.gameLoopId = id]

\* Variant: the speed of the previous game is kept.
GameStartSetupKeepsSpeed(w, c0) ==
    LET w1 == GameReset(w)
        w2 == [w1 EXCEPT !.gameState = SnakeInitialize(@)]
        w3 == FoodGenerate(w2, c0)
    IN  [w3 EXCEPT !.gameState.isPlaying = TRUE]

\* Game.start up to its call of this.loop(); c0 is the draw of Food.generate.
GameStartSetup(w, c0) ==
    LET w1 == GameReset(w)
        w2 == [w1 EXCEPT !.gameState = SnakeInitialize(@)]
        w3 == FoodGenerate(w2, c0)
    IN  [w3 EXCEPT !.gameState.speed = DifficultyOf(w3.gameState).initialSpeed,
                   !.gameState.isPlaying = TRUE]

\* Variant: the difficulty is checked after the reset and Snake.initialize().
GameStartChecksLate(w, c0, c1) ==
    IF w.gameState.difficultyKey = Null
        THEN [GameReset(w) EXCEPT !.gameState = SnakeInitialize(@)]
        ELSE GameLoop(GameStartSetup(w, c0), c1)

\* c1 is the draw of the first loop(), made if it captures the food.
GameStart(w, c0, c1) ==
    IF w.gameState.difficultyKey = Null
        THEN w
        ELSE GameLoop(GameStartSetup(w, c0), c1)

\* ------------------------------------------------------------------------
\* submit-score: validateScore
\* ------------------------------------------------------------------------

\* A JSON value of the request body: a number, or a value of another type
\* (typeof v !== 'number').
Num(n) == [type |-> "number", val |-> n]

NotANumber == [type |-> "string", val |-> 0]

IsNumber(v) == v.type = "number"

\* The % of JavaScript: the sign of the result is that of the dividend.
JsRem(a, b) == IF a >= 0 THEN a % b ELSE -((-a) % b)

Abs(a) == IF a >= 0 THEN a ELSE -a

Invalid(error) == [valid |-> FALSE, error |-> error]

\* Variant: no upper limit on the score.
ScoreOutOfRangeNoCeiling(score) == score.val < 0

\* score < 0 || score > 10000
ScoreOutOfRange(score) == score.val < 0 \/ score.val > 10000

\* Variant: only a timestamp in the past can be too far from the server's time.
TimestampExpiredPastOnly(timestamp, now) ==
    ~IsNumber(timestamp) \/ now - timestamp.val > 600000

\* typeof timestamp !== 'number' || Math.abs(now - timestamp) > 600000
TimestampExpired(timestamp, now) ==
    ~IsNumber(timestamp) \/ Abs(now - timestamp.val) > 600000

\* Variant: the play time is checked before the segment count.
ValidateScoreTimeFirst(data, now) ==
    LET score     == data.score
        gameData  == data.gameData
        timestamp == data.timestamp
    IN  IF ~IsNumber(score) \/ JsRem(score.val, 10) # 0
            THEN Invalid("Invalid score format")
        ELSE IF ScoreOutOfRange(score)
            THEN Invalid("Score out of range")
        ELSE IF TimestampExpired(timestamp, now)
            THEN Invalid("Timestamp expired")
        ELSE IF ~gameData.isObject
            THEN Invalid("Missing game data")
        ELSE IF gameData.difficulty \notin {"EASY", "MEDIUM", "HARD"}
            THEN Invalid("Invalid difficulty")
        ELSE LET expectedLength == (score.val \div 10) + 3
                 minGameTime    == (score.val \div 10) * 500
             IN  IF ~IsNumber(gameData.gameTime) \/ gameData.gameTime.val < minGameTime
                     THEN Invalid("Invalid game time")
                 ELSE IF ~IsNumber(gameData.snakeLength)
                       \/ Abs(gameData.snakeLength.val - expectedLength) > 2
                     THEN Invalid("Invalid game data")
                 ELSE [valid |-> TRUE, error |-> "none"]

\* validateScore with the value of Date.now() it reads.
ValidateScore(data, now) ==
    LET score     == data.score
        gameData  == data.gameData
        timestamp == data.timestamp
    IN  IF ~IsNumber(score) \/ JsRem(score.val, 10) # 0
            THEN Invalid("Invalid score format")
        ELSE IF ScoreOutOfRange(score)
            THEN Invalid("Score out of range")
        ELSE IF TimestampExpired(timestamp, now)
            THEN Invalid("Timestamp expired")
        ELSE IF ~gameData.isObject
            THEN Invalid("Missing game data")
        ELSE IF gameData.difficulty \notin {"EASY", "MEDIUM", "HARD"}
            THEN Invalid("Invalid difficulty")
        ELSE LET expectedLength == (score.val \div 10) + 3
                 minGameTime    == (score.val \div 10) * 500
             IN  IF ~IsNumber(gameData.snakeLength)
                       \/ Abs(gameData.snakeLength.val - expectedLength) > 2
                     THEN Invalid("Invalid game data")
                 ELSE IF ~IsNumber(gameData.gameTime) \/ gameData.gameTime.val < minGameTime
                     THEN Invalid("Invalid game time")
                 ELSE [valid |-> TRUE, error |-> "none"]

\* No request has been validated yet.
NoSubmission ==
    [ score     |-> NotANumber,
      timestamp |-> NotANumber,
      gameData  |-> [isObject |-> FALSE, difficulty |-> "none",
                     snakeLength |-> NotANumber, gameTime |-> NotANumber] ]

NoValidation == [valid |-> FALSE, error |-> "not validated"]

\* ------------------------------------------------------------------------
\* submit-score: rate limiter
\* ------------------------------------------------------------------------
RATE_LIMIT_WINDOW == 60000

\* Max submissions per window per IP (5 in the source; scaled down here).
RATE_LIMIT_MAX == 2

\* Source addresses (context.ip) of the requests.
Ips == {"a", "b"}

\* rateLimitMap.get(ip) is <<>> when the map has no entry for ip, and
\* <<entry>> otherwise.
EmptyRateLimitMap == [ip \in Ips |-> <<>>]

RateLimitEntry(windowStart, count) == [windowStart |-> windowStart, count |-> count]

\* Variant: an admission inside the window is not counted.
CheckRateLimitNoCount(map, ip, now) ==
    LET entry == map[ip]
    IN  IF entry = <<>> \/ now - entry[1].windowStart > RATE_LIMIT_WINDOW
            THEN [map |-> [map EXCEPT ![ip] = <<RateLimitEntry(now, 1)>>],
                  admitted |-> TRUE]
        ELSE IF entry[1].count >= RATE_LIMIT_MAX
            THEN [map |-> map, admitted |-> FALSE]
        ELSE [map |-> map, admitted |-> TRUE]

\* Variant: a denied request restarts the window of its address.
CheckRateLimitDenialExtends(map, ip, now) ==
    LET entry == map[ip]
    IN  IF entry = <<>> \/ now - entry[1].windowStart > RATE_LIMIT_WINDOW
            THEN [map |-> [map EXCEPT ![ip] = <<RateLimitEntry(now, 1)>>],
                  admitted |-> TRUE]
        ELSE IF entry[1].count >= RATE_LIMIT_MAX
            THEN [map |-> [map EXCEPT ![ip] =
                             <<RateLimitEntry(now, entry[1].count)>>],
                  admitted |-> FALSE]
        ELSE [map |-> [map EXCEPT ![ip] =
                         <<RateLimitEntry(entry[1].windowStart, entry[1].count + 1)>>],
              admitted |-> TRUE]

\* checkRateLimit(ip) with the value of Date.now() it reads: the map it
\* leaves and the value it returns.
CheckRateLimit(map, ip, now) ==
    LET entry == map[ip]
    IN  IF entry = <<>> \/ now - entry[1].windowStart > RATE_LIMIT_WINDOW
            THEN [map |-> [map EXCEPT ![ip] = <<RateLimitEntry(now, 1)>>],
                  admitted |-> TRUE]
        ELSE IF entry[1].count >= RATE_LIMIT_MAX
            THEN [map |-> map, admitted |-> FALSE]
        ELSE [map |-> [map EXCEPT ![ip] =
                         <<RateLimitEntry(entry[1].windowStart, entry[1].count + 1)>>],
              admitted |-> TRUE]

\* ------------------------------------------------------------------------
\* submit-score: the leaderboard blob and the read-modify-write cycle
\* ------------------------------------------------------------------------

\* Entries kept by slice(0, 20) (20 in the source; scaled down here).
LeaderboardSize == 2

\* let retries = 3
StoreRetries == 3

\* rank: null in the response
NoRank == 0

Min(a, b) == IF a <= b THEN a ELSE b

\* store.get("scores") resolves to null until the blob is first written:
\* <<>> stands for null, <<blob>> for a stored blob.
NoBlob == <<>>

\* existing || { version: 1, lastUpdated: Date.now(), scores: [] }
\* (the scores; version and lastUpdated take no part in the cycle).
ScoresOf(existing) == IF existing = <<>> THEN <<>> ELSE existing[1].scores

\* The entry the handler builds from a validated body; id is the value of
\* generateId(), a fresh identifier.
NewEntry(data, id) ==
    [ id          |-> id,
      score       |-> data.score.val,
      difficulty  |-> data.gameData.difficulty,
      snakeLength |-> data.gameData.snakeLength.val,
      gameTime    |-> data.gameData.gameTime.val,
      timestamp   |-> data.timestamp.val ]

\* Variant: ties on the score are left in arrival order.
ComparatorScoreOnly(a, b) == b.score - a.score

\* The comparator of the sort: negative when a goes before b.
Comparator(a, b) ==
    IF b.score # a.score THEN b.score - a.score ELSE a.timestamp - b.timestamp

\* Variant: an element is placed before the elements it ties with.
RECURSIVE InsertSortedBeforeTies(_, _)
InsertSortedBeforeTies(e, s) ==
    IF s = <<>> THEN <<e>>
    ELSE IF Comparator(e, Head(s)) <= 0 THEN <<e>> \o s
    ELSE <<Head(s)>> \o InsertSortedBeforeTies(e, Tail(s))

RECURSIVE InsertSorted(_, _)
InsertSorted(e, s) ==
    IF s = <<>> THEN <<e>>
    ELSE IF Comparator(e, Head(s)) < 0 THEN <<e>> \o s
    ELSE <<Head(s)>> \o InsertSorted(e, Tail(s))

\* Array.prototype.sort with the comparator: a stable sort.
RECURSIVE SortScores(_)
SortScores(s) ==
    IF s = <<>> THEN <<>>
    ELSE InsertSorted(s[Len(s)], SortScores(SubSeq(s, 1, Len(s) - 1)))

\* Variant: the list is not cut.
KeepTopUncut(s) == s

\* Variant: the last entries are kept instead of the first.
KeepTopTail(s) == SubSeq(s, Max(1, Len(s) - LeaderboardSize + 1), Len(s))

\* scores.slice(0, 20)
KeepTop(s) == SubSeq(s, 1, Min(Len(s), LeaderboardSize))

\* Variant: the index is taken as the rank, without the + 1.
FindRankZeroBased(s, id) ==
    IF \E i \in 1..Len(s) : s[i].id = id
        THEN (CHOOSE i \in 1..Len(s) :
                /\ s[i].id = id
                /\ \A j \in 1..(i - 1) : s[j].id # id) - 1
        ELSE -1

\* scores.findIndex(s => s.id === id) + 1
FindRank(s, id) ==
    IF \E i \in 1..Len(s) : s[i].id = id
        THEN CHOOSE i \in 1..Len(s) :
                /\ s[i].id = id
                /\ \A j \in 1..(i - 1) : s[j].id # id
        ELSE 0

\* madeLeaderboard ? rank : null
ReportedRank(rank) == IF rank > 0 /\ rank <= LeaderboardSize THEN rank ELSE NoRank

\* Variant: the new entry replaces the list that was read.
UpdatedScoresDropsExisting(existing, entry) == KeepTop(SortScores(<<entry>>))

\* push, sort and slice on the scores that were read.
UpdatedScores(existing, entry) ==
    KeepTop(SortScores(Append(ScoresOf(existing), entry)))

\* ------------------------------------------------------------------------
\* submit-score: the handler, one operator per stretch between two awaits
\* ------------------------------------------------------------------------

\* new Response(JSON.stringify({ success, error, rank }), { status })
Response(status, error, rank) == [status |-> status, error |-> error, rank |-> rank]

NoResponse == Response(0, "none", NoRank)

\* One run of the handler: where it stands (pc) and its local variables.
\* n numbers the POST requests in arrival order and existing is the blob
\* store.get resolved to.  The other fields record what the run has done:
\* reads and writes count the calls of store.get and store.setJSON,
\* readFailed and writeFailed those that rejected, readWaits and writeWaits
\* list the delays of setTimeout in the two retry loops.
FreeRequest ==
    [ pc         |-> "free",
      n          |-> 0,
      data       |-> NoSubmission,
      validation |-> NoValidation,
      retries    |-> 0,
      existing   |-> NoBlob,
      scores     |-> <<>>,
      lastUpdated |-> 0,
      rank       |-> NoRank,
      response   |-> NoResponse,
      reads      |-> 0,
      writes     |-> 0,
      readFailed |-> 0,
      writeFailed |-> 0,
      readWaits  |-> <<>>,
      writeWaits |-> <<>> ]

\* The handler returns: its local variables are gone (the body it was sent
\* is kept on record).
Return(r, response) ==
    [r EXCEPT !.pc = "done", !.response = response,
              !.retries = 0, !.existing = NoBlob, !.scores = <<>>,
              !.lastUpdated = 0, !.rank = NoRank]

\* The catch block of the handler.
ServerError(r) == Return(r, Response(500, "Server error", NoRank))

\* Variant: the answer of the rate limiter is ignored.
AfterRateLimitIgnoresDenial(r, admitted) == [r EXCEPT !.pc = "body"]

\* if (!checkRateLimit(ip)) return 429; otherwise await request.json()
AfterRateLimit(r, admitted) ==
    IF admitted
        THEN [r EXCEPT !.pc = "body"]
        ELSE Return(r, Response(429,
                 "Rate limit exceeded. Please wait before submitting again.", NoRank))

\* The handler from its entry to its first await, for request number n:
\* the run of the handler, the rate limiter's map and its answer.
HandlerEntry(n, method, ip, map, now) ==
    LET r     == [FreeRequest EXCEPT !.n = n]
        limit == CheckRateLimit(map, ip, now)
    IN  IF method # "POST"
            THEN [request  |-> Return(r, Response(405, "Method not allowed", NoRank)),
                  map      |-> map,
                  admitted |-> FALSE]
            ELSE [request  |-> AfterRateLimit(r, limit.admitted),
                  map      |-> limit.map,
                  admitted |-> limit.admitted]

\* Variant: every rejection is answered with the same message.
RejectionGeneric(verdict) == Response(400, "Invalid submission", NoRank)

\* The 400 response: error: validation.error
Rejection(verdict) == Response(400, verdict.error, NoRank)

\* request.json() has resolved to data: validateScore, then the first
\* store.get is called.
BodyParsed(r, data, now) ==
    LET verdict == ValidateScore(data, now)
    IN  IF ~verdict.valid
            THEN Return([r EXCEPT !.validation = verdict], Rejection(verdict))
            ELSE [r EXCEPT !.pc = "read", !.data = data, !.validation = verdict,
                           !.retries = StoreRetries]

\* Variant: the same delay before every retry.
BackoffConstant(retries) == 100

\* setTimeout(r, 100 * (4 - retries))
Backoff(retries) == 100 * (4 - retries)

\* store.get has rejected: retries--, rethrow at 0, wait otherwise.
GetRejected(r) ==
    LET retries == r.retries - 1
        failed  == [r EXCEPT !.reads = @ + 1, !.readFailed = @ + 1]
    IN  IF retries = 0
            THEN ServerError(failed)
            ELSE [failed EXCEPT !.retries = retries,
                                !.readWaits = Append(@, Backoff(retries))]

\* store.get has resolved to existing: the new entry is pushed, the list
\* sorted and cut, the rank found, lastUpdated set to Date.now(), and the
\* first store.setJSON is called.
GetResolved(r, existing, id, now) ==
    LET scores == UpdatedScores(existing, NewEntry(r.data, id))
    IN  [r EXCEPT !.pc = "write", !.reads = @ + 1, !.existing = existing,
                  !.scores = scores, !.rank = FindRank(scores, id),
                  !.lastUpdated = now,
                  !.retries = StoreRetries]

\* store.setJSON has rejected: retries--, rethrow at 0, wait otherwise.
SetRejected(r) ==
    LET retries == r.retries - 1
        failed  == [r EXCEPT !.writes = @ + 1, !.writeFailed = @ + 1]
    IN  IF retries = 0
            THEN ServerError(failed)
            ELSE [failed EXCEPT !.retries = retries,
                                !.writeWaits = Append(@, Backoff(retries))]

\* Variant: building the response throws after the write, and the catch
\* block answers.
SetResolvedThrows(r) == ServerError([r EXCEPT !.writes = @ + 1])

\* store.setJSON has resolved: the 200 response.
SetResolved(r) ==
    Return([r EXCEPT !.writes = @ + 1], Response(200, "none", ReportedRank(r.rank)))

\* The blob store.setJSON("scores", leaderboardData) writes.
BlobOf(r) == <<[version |-> 1, lastUpdated |-> r.lastUpdated, scores |-> r.scores]>>

\* Runs of the handler that can be in progress at once.
MaxInFlight == 2

Slots == 1..MaxInFlight

\* The function instance has just started: an empty map, no blob yet.
InitSubmitVars ==
    /\ rateLimitMap = EmptyRateLimitMap
    /\ store = NoBlob
    /\ requests = [i \in Slots |-> FreeRequest]
    /\ arrivals = <<>>

\* ------------------------------------------------------------------------
\* get-leaderboard: the cache and the handler
\* ------------------------------------------------------------------------
CACHE_TTL == 5000

\* cachedData = null
NoCache == <<>>

\* The blob used when store.get resolves to null.
DefaultBlob(now) == [version |-> 1, lastUpdated |-> now, scores |-> <<>>]

\* new Response(JSON.stringify({ success, scores, lastUpdated, error }), { status })
QueryResponse(status, scores, lastUpdated, error) ==
    [status |-> status, scores |-> scores, lastUpdated |-> lastUpdated, error |-> error]

NoQueryResponse == QueryResponse(0, <<>>, 0, "none")

\* One run of the handler: where it stands (pc), its local variables now
\* and retries, the number of its calls of store.get (reads) and its
\* response.
FreeQuery ==
    [ pc       |-> "free",
      now      |-> 0,
      retries  |-> 0,
      reads    |-> 0,
      response |-> NoQueryResponse ]

QueryReturn(q, response) ==
    [q EXCEPT !.pc = "done", !.retries = 0, !.response = response]

\* cachedData && (now - cacheTimestamp) < CACHE_TTL
CacheIsFresh(cached, timestamp, now) ==
    cached # NoCache /\ (now - timestamp) < CACHE_TTL

\* The handler from its entry to its return or its first await.
QueryEntry(method, cached, timestamp, now) ==
    LET q == [FreeQuery EXCEPT !.now = now]
    IN  IF method # "GET"
            THEN QueryReturn([q EXCEPT !.now = 0],
                             QueryResponse(405, <<>>, 0, "Method not allowed"))
        ELSE IF CacheIsFresh(cached, timestamp, now)
            THEN QueryReturn(q, QueryResponse(200, cached[1].scores,
                                              cached[1].lastUpdated, "none"))
        ELSE [q EXCEPT !.pc = "read", !.retries = StoreRetries]

\* Variant: the first rejection is rethrown.
QueryGetRejectedOnce(q) ==
    QueryReturn([q EXCEPT !.reads = @ + 1], QueryResponse(500, <<>>, 0, "Server error"))

\* store.get has rejected: retries--, rethrow at 0 (the catch block answers
\* 500), wait otherwise.
QueryGetRejected(q) ==
    LET retries == q.retries - 1
        failed  == [q EXCEPT !.reads = @ + 1]
    IN  IF retries = 0
            THEN QueryReturn(failed, QueryResponse(500, <<>>, 0, "Server error"))
            ELSE [failed EXCEPT !.retries = retries]

\* Variant: the cache is dated at the time the read resolved.
QueryGetResolvedDatesRead(q, existing, now) ==
    LET leaderboardData == IF existing = NoBlob THEN DefaultBlob(now) ELSE existing[1]
    IN  [ query          |-> QueryReturn([q EXCEPT !.reads = @ + 1],
                                QueryResponse(200, leaderboardData.scores,
                                              leaderboardData.lastUpdated, "none")),
          cachedData     |-> <<leaderboardData>>,
          cacheTimestamp |-> now ]

\* store.get has resolved to existing at time now: the cache is replaced
\* and dated at the time the request arrived, and the handler returns.
QueryGetResolved(q, existing, now) ==
    LET leaderboardData == IF existing = NoBlob THEN DefaultBlob(now) ELSE existing[1]
    IN  [ query          |-> QueryReturn([q EXCEPT !.reads = @ + 1],
                                QueryResponse(200, leaderboardData.scores,
                                              leaderboardData.lastUpdated, "none")),
          cachedData     |-> <<leaderboardData>>,
          cacheTimestamp |-> q.now ]

\* Runs of the get-leaderboard handler that can be in progress at once.
MaxQueries == 2

QuerySlots == 1..MaxQueries

\* The function instance has just started.
InitQueryVars ==
    /\ cachedData = NoCache
    /\ cacheTimestamp = 0
    /\ refresher = 0
    /\ queries = [i \in QuerySlots |-> FreeQuery]

\* ------------------------------------------------------------------------
\* Leaderboard module of the client and the rest of Game.gameOver
\* ------------------------------------------------------------------------
\* What Leaderboard.submitScore resolves to.
SubmitResult(success, rank, error) == [success |-> success, rank |-> rank, error |-> error]

\* The result made of the body of a response of submit-score.
SubmitResultOf(response) ==
    SubmitResult(response.status = 200, response.rank, response.error)

\* The catch block of Leaderboard.submitScore.
NetworkError == SubmitResult(FALSE, NoRank, "Network error")

\* What Leaderboard.fetchLeaderboard resolves to.
LeaderboardResult(success, scores, error) ==
    [success |-> success, scores |-> scores, error |-> error]

\* The result made of the body of a response of get-leaderboard.
LeaderboardResultOf(response) ==
    LeaderboardResult(response.status = 200, response.scores, response.error)

\* The catch block of Leaderboard.fetchLeaderboard.
RequestTimedOut == LeaderboardResult(FALSE, <<>>, "Request timed out")

UnableToConnect == LeaderboardResult(FALSE, <<>>, "Unable to connect")

\* The body Leaderboard.submitScore posts at time now.
LeaderboardSubmitScore(score, difficulty, snakeLength, gameTime, now) ==
    [ score     |-> Num(score),
      timestamp |-> Num(now),
      gameData  |-> [isObject    |-> TRUE,
                     difficulty  |-> difficulty,
                     snakeLength |-> Num(snakeLength),
                     gameTime    |-> Num(gameTime)] ]

\* One call of Game.gameOver past its first await: where it stands (pc),
\* the body it posted and its local submitResult.
NoSubmitResult == SubmitResult(FALSE, NoRank, "none")

IdlePath == [pc |-> "idle", body |-> NoSubmission, submitResult |-> NoSubmitResult]

\* Variant: the leaderboard is fetched while the score is being submitted.
GameOverSubmitsAndFetches(g, gameTime, now) ==
    [ pc   |-> "fetching",
      body |-> LeaderboardSubmitScore(g.score, g.difficultyKey, Len(g.snake), gameTime, now),
      submitResult |-> NoSubmitResult ]

\* Game.gameOver after its timers are cleared, up to its first await:
\* gameTime is computed and Leaderboard.submitScore posts the score.
GameOverSubmits(g, gameTime, now) ==
    [ pc   |-> "submitting",
      body |-> LeaderboardSubmitScore(g.score, g.difficultyKey, Len(g.snake), gameTime, now),
      submitResult |-> NoSubmitResult ]

\* Leaderboard.submitScore has resolved to result: playerRank is set and
\* Leaderboard.fetchLeaderboard sends its request.
SubmitScoreResolved(path, result) ==
    [path EXCEPT !.pc = "fetching", !.body = NoSubmission, !.submitResult = result]

PlayerRankSet(lb, result) == [lb EXCEPT !.playerRank = result.rank]

\* Leaderboard.fetchLeaderboard has resolved to result: the two branches of
\* Game.gameOver.
FetchLeaderboardResolved(lb, result) ==
    IF result.success
        THEN [lb EXCEPT !.scores = result.scores, !.error = Null]
        ELSE [lb EXCEPT !.error = result.error]

\* Calls of Game.gameOver that can be waiting for the leaderboard at once.
MaxPaths == 1

PathSlots == 1..MaxPaths

InitLeaderboard ==
    [scores |-> <<>>, loading |-> FALSE, error |-> Null, playerRank |-> NoRank]

\* No game has been played.
InitSessionVars ==
    /\ playTime = 0
    /\ leaderboard = InitLeaderboard
    /\ paths = [p \in PathSlots |-> IdlePath]

\* ------------------------------------------------------------------------
\* The game as a state machine
\* ------------------------------------------------------------------------
Commit(w) ==
    /\ gameState' = w.gameState
    /\ timers' = w.timers
    /\ UNCHANGED <<serviceVars, submitVars, sessionVars, queryVars>>

\* The draws a call of Game.loop in state g can make: those of Food.generate
\* for the moved snake when the move captures the food, and none (the food
\* stays) otherwise.
LoopDraws(g) ==
    LET moved == SnakeMove(g)
    IN  IF FoodCheckCollision(moved) THEN FoodDraw(moved) ELSE {g.food}

WithinFoodBound(w) == w.gameState.score <= MaxFood * POINTS_PER_FOOD

InitGameState ==
    [ snake         |-> <<>>,
      direction     |-> Vec(1, 0),
      nextDirection |-> Vec(1, 0),
      food          |-> Vec(0, 0),
      score         |-> 0,
      isPlaying     |-> FALSE,
      gameLoopId    |-> NoTimer,
      speed         |-> 150,
      shouldGrow    |-> FALSE,
      difficultyKey |-> Null,
      foodTimerId   |-> NoTimer ]

\* State after the script has loaded and Game.init has run.
Init ==
    /\ gameState = InitGameState
    /\ timers = {}
    /\ submission = NoSubmission
    /\ serverNow = 0
    /\ validation = NoValidation
    /\ InitSubmitVars
    /\ InitSessionVars
    /\ InitQueryVars

\* A difficulty button is clicked.  The buttons are on the overlay, which is
\* hidden while a game is played.
SelectDifficulty ==
    /\ ~gameState.isPlaying
    /\ \E k \in DifficultyButtons :
          Commit([World EXCEPT !.gameState = GameSelectDifficulty(@, k)])

\* Space key, tap on the canvas or click on the start button while no game
\* is being played.
StartCommand ==
    /\ ~gameState.isPlaying
    /\ IF gameState.difficultyKey = Null
          THEN Commit(GameStart(World, gameState.food, gameState.food))
          ELSE \E c0 \in FoodDraw(SnakeInitialize(gameState)) :
                  \E c1 \in LoopDraws(GameStartSetup(World, c0).gameState) :
                      LET w == GameStart(World, c0, c1)
                      IN  /\ WithinFoodBound(w)
                          /\ Commit(w)

\* A direction key or a swipe asking for direction d while a game is played.
DirectionRequest(d) ==
    /\ gameState.isPlaying
    /\ Commit([World EXCEPT !.gameState = InputSetDirection(@, d)])

DirectionInput == \E d \in KeyDirections : DirectionRequest(d)

\* The timeout scheduled by Game.loop fires.
LoopTimerFires ==
    \E t \in timers :
        /\ t.cb = "loop"
        /\ \E c \in LoopDraws(gameState) :
              LET w == GameLoop([World EXCEPT !.timers = @ \ {t}], c)
              IN  /\ WithinFoodBound(w)
                  /\ Commit(w)

\* The timeout scheduled by Food.startTimer fires.
FoodTimerFires ==
    \E t \in timers :
        /\ t.cb = "relocate"
        /\ \E c \in FoodDraw(gameState) :
              Commit(FoodRelocate([World EXCEPT !.timers = @ \ {t}], c))

Next ==
    \/ SelectDifficulty
    \/ StartCommand
    \/ DirectionInput
    \/ LoopTimerFires
    \/ FoodTimerFires

Spec == Init /\ [][Next]_vars

\* ------------------------------------------------------------------------
\* The game played along a closed route through every cell
\* ------------------------------------------------------------------------
\* A player who steers the snake along a closed route that visits each of
\* the 16 cells around the starting position once, or lets it run into a
\* wall or into itself.  The snake starts on the route, heading along it.
Route ==
    << Vec(1, 2), Vec(2, 2), Vec(3, 2), Vec(3, 3),
       Vec(2, 3), Vec(1, 3), Vec(0, 3), Vec(0, 2),
       Vec(0, 1), Vec(0, 0), Vec(1, 0), Vec(2, 0),
       Vec(3, 0), Vec(3, 1), Vec(2, 1), Vec(1, 1) >>

OnRoute(c) == \E i \in 1..Len(Route) : Route[i] = c

RouteNext(c) ==
    LET i == CHOOSE j \in 1..Len(Route) : Route[j] = c
    IN  Route[(i % Len(Route)) + 1]

\* The direction from the head to the cell after it on the route.
RouteDirection(g) ==
    LET head == g.snake[1]
    IN  Vec(RouteNext(head).x - head.x, RouteNext(head).y - head.y)

\* The player presses the key of the route's direction.
RouteInput ==
    /\ gameState.isPlaying
    /\ OnRoute(gameState.snake[1])
    /\ DirectionRequest(RouteDirection(gameState))

\* The timeout scheduled by Game.loop fires when the player has turned the
\* snake along the route, or when going on ends the game.
LoopTimerFiresOnRoute ==
    \E t \in timers :
        /\ t.cb = "loop"
        /\ OnRoute(gameState.snake[1])
        /\ LET moved == SnakeMove(gameState)
           IN  \/ gameState.nextDirection = RouteDirection(gameState)
               \/ CheckWallCollision(moved)
               \/ CheckSelfCollision(moved)
        /\ \E c \in LoopDraws(gameState) :
              Commit(GameLoop([World EXCEPT !.timers = @ \ {t}], c))

NextRoute ==
    \/ SelectDifficulty
    \/ StartCommand
    \/ RouteInput
    \/ LoopTimerFiresOnRoute
    \/ FoodTimerFires

SpecRoute == Init /\ [][NextRoute]_vars

\* ------------------------------------------------------------------------
\* validateScore on request bodies
\* ------------------------------------------------------------------------

\* Values of Date.now() on the server (ms; the origin is arbitrary).
ServerTimes == {700000, 1300000}

\* Scores of the request bodies: negative, zero, not a multiple of ten, the
\* examples of the specification, and values around 4000 and 10000.
SubmittedScores == {-10, 0, 5, 120, 121, 4000, 4010, 10000, 10010}

\* Differences between the submitted segment count and score / 10 + 3.
LengthOffsets == {-3, -2, 0, 2, 3}

\* Differences between the submitted play time and (score / 10) * 500.
GameTimeOffsets == {-1, 0, 1000}

\* Differences between the submitted timestamp and the server's time.
TimestampOffsets == {-700000, -600001, -600000, 0, 600000, 600001}

SubmittedDifficulties == {"EASY", "MEDIUM", "HARD", "EXPERT"}

\* The choices for a number field of the request body: <<o>> for the number
\* base + o, <<>> for a value that is not a number.
Choices(offsets) == {<<o>> : o \in offsets} \cup {<<>>}

Field(base, choice) == IF choice = <<>> THEN NotANumber ELSE Num(base + choice[1])

\* The number of foods the submitted score stands for (0 if it is no number).
FoodsOf(choice) == IF choice = <<>> THEN 0 ELSE choice[1] \div 10

\* The request bodies validated, for server time now: every field is a number
\* from the sets above or a value that is not a number, gameData is an object
\* or missing.
Submissions(now) ==
    { [ score     |-> Field(0, sc),
        timestamp |-> Field(now, ts),
        gameData  |-> [isObject    |-> ob,
                       difficulty  |-> df,
                       snakeLength |-> Field(FoodsOf(sc) + 3, ln),
                       gameTime    |-> Field(FoodsOf(sc) * 500, gt)] ] :
        sc \in Choices(SubmittedScores),
        ts \in Choices(TimestampOffsets),
        ob \in BOOLEAN,
        df \in SubmittedDifficulties,
        ln \in Choices(LengthOffsets),
        gt \in Choices(GameTimeOffsets) }

\* A request body has arrived at the submit-score function.
InitValidate ==
    /\ gameState = InitGameState
    /\ timers = {}
    /\ serverNow \in ServerTimes
    /\ submission \in Submissions(serverNow)
    /\ validation = NoValidation
    /\ InitSubmitVars
    /\ InitSessionVars
    /\ InitQueryVars

\* The handler calls validateScore on the body.
ValidateRequest ==
    /\ validation = NoValidation
    /\ validation' = ValidateScore(submission, serverNow)
    /\ UNCHANGED <<gameVars, sessionVars, queryVars, submission, serverNow, submitVars>>

NextValidate == ValidateRequest

SpecValidate == InitValidate /\ [][NextValidate]_vars

\* ------------------------------------------------------------------------
\* The submit-score function as a state machine
\* ------------------------------------------------------------------------

\* POST requests received by one function instance: when the rate limiter
\* is followed over time, and when every body and store failure is tried.
MaxArrivals == 4

MaxSubmissions == 3

Methods == {"POST", "GET"}

\* Date.now() when the function instance starts.
ServiceStart == CHOOSE t \in ServerTimes : \A u \in ServerTimes : t <= u

\* The times at which requests arrive: the start, one window later, and one
\* millisecond after that.
ClockTimes ==
    {ServiceStart, ServiceStart + RATE_LIMIT_WINDOW, ServiceStart + RATE_LIMIT_WINDOW + 1}

\* A body whose gameData agrees with its score.
Body(score, timestamp) ==
    [ score     |-> Num(score),
      timestamp |-> Num(timestamp),
      gameData  |-> [isObject    |-> TRUE,
                     difficulty  |-> "EASY",
                     snakeLength |-> Num((score \div 10) + 3),
                     gameTime    |-> Num((score \div 10) * 500)] ]

\* The bodies submitted: two with the same score and different timestamps,
\* one with a higher score, one failing the score format check and one
\* failing the timestamp check.
Bodies ==
    { Body(10, ServiceStart), Body(10, ServiceStart - 1), Body(20, ServiceStart),
      Body(5, ServiceStart), Body(20, ServiceStart - 600001) }

InitSubmit ==
    /\ gameState = InitGameState
    /\ timers = {}
    /\ submission = NoSubmission
    /\ validation = NoValidation
    /\ serverNow = ServiceStart
    /\ InitSubmitVars
    /\ InitSessionVars
    /\ InitQueryVars

\* Time passes on the server, up to one of times.
ClockAdvancesOver(times) ==
    /\ \E t \in times :
          /\ t > serverNow
          /\ serverNow' = t
    /\ UNCHANGED <<gameVars, sessionVars, queryVars, submission, validation, submitVars>>

ClockAdvances == ClockAdvancesOver(ClockTimes)

\* A request with one of the methods arrives from one of the addresses ips
\* and the handler runs to its first await.  It takes the first slot that no
\* run of the handler occupies.  The POST requests are numbered and logged,
\* and at most limit of them arrive.
RequestArrivesFrom(methods, ips, limit) ==
    /\ \E i \in Slots :
          /\ requests[i].pc \in {"free", "done"}
          /\ \A j \in 1..(i - 1) : requests[j].pc \notin {"free", "done"}
          /\ \E method \in methods, ip \in ips :
                IF method = "POST"
                    THEN LET entry == HandlerEntry(Len(arrivals) + 1, method, ip,
                                                   rateLimitMap, serverNow)
                         IN  /\ Len(arrivals) < limit
                             /\ requests' = [requests EXCEPT ![i] = entry.request]
                             /\ rateLimitMap' = entry.map
                             /\ arrivals' = Append(arrivals,
                                    [ip |-> ip, at |-> serverNow,
                                     admitted |-> entry.admitted])
                    ELSE LET entry == HandlerEntry(0, method, ip,
                                                   rateLimitMap, serverNow)
                         IN  /\ requests' = [requests EXCEPT ![i] = entry.request]
                             /\ rateLimitMap' = entry.map
                             /\ arrivals' = arrivals
    /\ UNCHANGED <<gameVars, sessionVars, queryVars, serviceVars, store>>

\* request.json() resolves to one of bodies.
BodyArrivesFrom(bodies) ==
    /\ \E i \in Slots :
          /\ requests[i].pc = "body"
          /\ \E data \in bodies :
                requests' = [requests EXCEPT ![i] = BodyParsed(@, data, serverNow)]
    /\ UNCHANGED <<gameVars, sessionVars, queryVars, serviceVars, rateLimitMap, store, arrivals>>

\* request.json() rejects: the body is not JSON.
BodyFails ==
    /\ \E i \in Slots :
          /\ requests[i].pc = "body"
          /\ requests' = [requests EXCEPT ![i] = ServerError(@)]
    /\ UNCHANGED <<gameVars, sessionVars, queryVars, serviceVars, rateLimitMap, store, arrivals>>

\* store.get resolves with the blob as it is now.
StoreGetResolves ==
    /\ \E i \in Slots :
          /\ requests[i].pc = "read"
          /\ requests' = [requests EXCEPT ![i] = GetResolved(@, store, @.n, serverNow)]
    /\ UNCHANGED <<gameVars, sessionVars, queryVars, serviceVars, rateLimitMap, store, arrivals>>

\* store.get rejects (a transient failure of the store).
StoreGetRejects ==
    /\ \E i \in Slots :
          /\ requests[i].pc = "read"
          /\ requests' = [requests EXCEPT ![i] = GetRejected(@)]
    /\ UNCHANGED <<gameVars, sessionVars, queryVars, serviceVars, rateLimitMap, store, arrivals>>

\* store.setJSON resolves: the blob is replaced.
StoreSetResolves ==
    /\ \E i \in Slots :
          /\ requests[i].pc = "write"
          /\ store' = BlobOf(requests[i])
          /\ requests' = [requests EXCEPT ![i] = SetResolved(@)]
    /\ UNCHANGED <<gameVars, sessionVars, queryVars, serviceVars, rateLimitMap, arrivals>>

\* store.setJSON rejects.
StoreSetRejects ==
    /\ \E i \in Slots :
          /\ requests[i].pc = "write"
          /\ requests' = [requests EXCEPT ![i] = SetRejected(@)]
    /\ UNCHANGED <<gameVars, sessionVars, queryVars, serviceVars, rateLimitMap, store, arrivals>>

\* The function with every method, body and failure of the store, all
\* requests arriving at the time the instance started.
RequestArrives == RequestArrivesFrom(Methods, Ips, MaxSubmissions)

BodyArrives == BodyArrivesFrom(Bodies)

NextSubmit ==
    \/ RequestArrives
    \/ BodyArrives
    \/ BodyFails
    \/ StoreGetResolves
    \/ StoreGetRejects
    \/ StoreSetResolves
    \/ StoreSetRejects

SpecSubmit == InitSubmit /\ [][NextSubmit]_vars

\* The function with its requests processed one at a time: a POST arrives
\* only when no run of the handler is in progress.
OneAtATime == \A i \in Slots : requests[i].pc \in {"free", "done"}

NextPostArrives == OneAtATime /\ RequestArrivesFrom({"POST"}, Ips, MaxArrivals)

NextSequential ==
    \/ NextPostArrives
    \/ BodyArrives
    \/ BodyFails
    \/ StoreGetResolves
    \/ StoreGetRejects
    \/ StoreSetResolves
    \/ StoreSetRejects

SpecSequential == InitSubmit /\ [][NextSequential]_vars

\* The function with well-formed clients at every address, over time, and
\* a store that does not fail.
PostArrives == RequestArrivesFrom({"POST"}, Ips, MaxArrivals)

ValidBodyArrives == BodyArrivesFrom({Body(10, ServiceStart)})

NextLimiter ==
    \/ ClockAdvances
    \/ PostArrives
    \/ ValidBodyArrives
    \/ StoreGetResolves
    \/ StoreSetResolves

SpecLimiter == InitSubmit /\ [][NextLimiter]_vars

\* ------------------------------------------------------------------------
\* get-leaderboard as a state machine
\* ------------------------------------------------------------------------
\* The two functions on one store: requests to get-leaderboard arrive over
\* time, while one address submits valid scores.  The times are the start,
\* one millisecond less than CACHE_TTL later, CACHE_TTL later, and CACHE_TTL
\* after the second.
QueryClockTimes ==
    { ServiceStart,
      ServiceStart + CACHE_TTL - 1,
      ServiceStart + CACHE_TTL,
      ServiceStart + CACHE_TTL - 1 + CACHE_TTL }

QueryMethods == {"GET", "POST"}

\* Scores submitted while the leaderboard is queried.
MaxScores == 1

QueryClockAdvances == ClockAdvancesOver(QueryClockTimes)

\* A request arrives and the handler runs to its return or its first
\* await.  It takes the first slot that no run of the handler occupies.
QueryArrives ==
    /\ \E i \in QuerySlots :
          /\ queries[i].pc \in {"free", "done"}
          /\ \A j \in 1..(i - 1) : queries[j].pc \notin {"free", "done"}
          /\ \E method \in QueryMethods :
                queries' = [queries EXCEPT ![i] =
                               QueryEntry(method, cachedData, cacheTimestamp, serverNow)]
    /\ UNCHANGED <<gameVars, sessionVars, serviceVars, submitVars,
                   cachedData, cacheTimestamp, refresher>>

\* store.get resolves with the blob as it is now.
QueryStoreGetResolves ==
    /\ \E i \in QuerySlots :
          /\ queries[i].pc = "read"
          /\ LET resolved == QueryGetResolved(queries[i], store, serverNow)
             IN  /\ queries' = [queries EXCEPT ![i] = resolved.query]
                 /\ cachedData' = resolved.cachedData
                 /\ cacheTimestamp' = resolved.cacheTimestamp
                 /\ refresher' = queries[i].now
    /\ UNCHANGED <<gameVars, sessionVars, serviceVars, submitVars>>

\* store.get rejects (a transient failure of the store).
QueryStoreGetRejects ==
    /\ \E i \in QuerySlots :
          /\ queries[i].pc = "read"
          /\ queries' = [queries EXCEPT ![i] = QueryGetRejected(@)]
    /\ UNCHANGED <<gameVars, sessionVars, serviceVars, submitVars,
                   cachedData, cacheTimestamp, refresher>>

\* A score is submitted.
ScoreArrives == RequestArrivesFrom({"POST"}, {"a"}, MaxScores)

NextQuery ==
    \/ QueryClockAdvances
    \/ QueryArrives
    \/ QueryStoreGetResolves
    \/ QueryStoreGetRejects
    \/ ScoreArrives
    \/ ValidBodyArrives
    \/ StoreGetResolves
    \/ StoreSetResolves

SpecQuery == InitSubmit /\ [][NextQuery]_vars

\* ------------------------------------------------------------------------
\* The game with its leaderboard path, over time
\* ------------------------------------------------------------------------
\* The game on HARD with the time since Game.start: every timeout fires
\* when it is due and a handler takes no time, so playTime is the least
\* time the game can have taken.  Games last MaxPlayTime at most, which is
\* less than the foodTimeout of HARD: the relocation timer never fires.
\* The two services are the environment: they answer with any response of
\* theirs, or the request fails.
MaxPlayTime == 400

SessionButtons == {"HARD"}

\* The direction keys the player of these games presses.
SessionKeys == {Vec(0, -1), Vec(0, 1)}

\* The browser's Date.now(), the game having started at ServiceStart.
ClientNow(elapsed) == ServiceStart + elapsed

SubmitResults ==
    { SubmitResultOf(Response(200, "none", 1)),
      SubmitResultOf(Response(200, "none", NoRank)),
      SubmitResultOf(Rejection(Invalid("Invalid game time"))),
      SubmitResultOf(Response(429,
          "Rate limit exceeded. Please wait before submitting again.", NoRank)),
      SubmitResultOf(Response(500, "Server error", NoRank)),
      NetworkError }

LeaderboardResults ==
    { LeaderboardResultOf(QueryResponse(200, <<>>, ServiceStart, "none")),
      LeaderboardResultOf(QueryResponse(200,
          <<NewEntry(Body(10, ServiceStart), 1)>>, ServiceStart, "none")),
      LeaderboardResultOf(QueryResponse(500, <<>>, 0, "Server error")),
      RequestTimedOut,
      UnableToConnect }

\* The handler leaves the client in w, elapsed after the start of the game;
\* if it has called Game.gameOver (ended), that call waits for its
\* submission in the first free slot.
SessionCommit(w, ended, elapsed) ==
    /\ gameState' = w.gameState
    /\ timers' = w.timers
    /\ playTime' = elapsed
    /\ IF ended
          THEN \E p \in PathSlots :
                  /\ paths[p].pc = "idle"
                  /\ \A q \in 1..(p - 1) : paths[q].pc # "idle"
                  /\ paths' = [paths EXCEPT ![p] =
                         GameOverSubmits(w.gameState, elapsed, ClientNow(elapsed))]
          ELSE paths' = paths
    /\ UNCHANGED <<leaderboard, serviceVars, submitVars, queryVars>>

SessionSelectDifficulty ==
    /\ ~gameState.isPlaying
    /\ \E k \in SessionButtons :
          SessionCommit([World EXCEPT !.gameState = GameSelectDifficulty(@, k)],
                        FALSE, playTime)

\* Variant: the start command is ignored while a call of Game.gameOver is
\* waiting for the leaderboard.
SessionStartWhenIdle ==
    /\ ~gameState.isPlaying
    /\ gameState.difficultyKey # Null
    /\ \A p \in PathSlots : paths[p].pc = "idle"
    /\ \E c0 \in FoodDraw(SnakeInitialize(gameState)) :
          \E c1 \in LoopDraws(GameStartSetup(World, c0).gameState) :
              LET w == GameStart(World, c0, c1)
              IN  /\ WithinFoodBound(w)
                  /\ SessionCommit(w, ~w.gameState.isPlaying, 0)

\* The start command: gameStartTime = Date.now().
SessionStart ==
    /\ ~gameState.isPlaying
    /\ gameState.difficultyKey # Null
    /\ \E c0 \in FoodDraw(SnakeInitialize(gameState)) :
          \E c1 \in LoopDraws(GameStartSetup(World, c0).gameState) :
              LET w == GameStart(World, c0, c1)
              IN  /\ WithinFoodBound(w)
                  /\ SessionCommit(w, ~w.gameState.isPlaying, 0)

SessionDirectionInput ==
    /\ gameState.isPlaying
    /\ \E d \in SessionKeys :
          SessionCommit([World EXCEPT !.gameState = InputSetDirection(@, d)],
                        FALSE, playTime)

\* The timeout scheduled by Game.loop fires, gameState.speed after it was
\* scheduled.
SessionLoopTimerFires ==
    \E t \in timers :
        /\ t.cb = "loop"
        /\ playTime + gameState.speed <= MaxPlayTime
        /\ \E c \in LoopDraws(gameState) :
              LET w == GameLoop([World EXCEPT !.timers = @ \ {t}], c)
              IN  /\ WithinFoodBound(w)
                  /\ SessionCommit(w, gameState.isPlaying /\ ~w.gameState.isPlaying,
                                   playTime + gameState.speed)

\* Leaderboard.submitScore resolves: the service has answered or the
\* request has failed.
SubmitScoreResolves ==
    /\ \E p \in PathSlots :
          /\ paths[p].pc = "submitting"
          /\ \E result \in SubmitResults :
                /\ paths' = [paths EXCEPT ![p] = SubmitScoreResolved(@, result)]
                /\ leaderboard' = PlayerRankSet(leaderboard, result)
    /\ UNCHANGED <<gameVars, playTime, serviceVars, submitVars, queryVars>>

\* Variant: the continuation of Game.gameOver stops the game again.
FetchLeaderboardResolvesStopsGame ==
    /\ \E p \in PathSlots :
          /\ paths[p].pc = "fetching"
          /\ \E result \in LeaderboardResults :
                /\ leaderboard' = FetchLeaderboardResolved(leaderboard, result)
                /\ paths' = [paths EXCEPT ![p] = IdlePath]
    /\ gameState' = GameGameOver(World).gameState
    /\ timers' = GameGameOver(World).timers
    /\ UNCHANGED <<playTime, serviceVars, submitVars, queryVars>>

\* Leaderboard.fetchLeaderboard resolves: the service has answered, the
\* request has failed or it was aborted after 5 s.
FetchLeaderboardResolves ==
    /\ \E p \in PathSlots :
          /\ paths[p].pc = "fetching"
          /\ \E result \in LeaderboardResults :
                /\ leaderboard' = FetchLeaderboardResolved(leaderboard, result)
                /\ paths' = [paths EXCEPT ![p] = IdlePath]
    /\ UNCHANGED <<gameVars, playTime, serviceVars, submitVars, queryVars>>

NextSession ==
    \/ SessionSelectDifficulty
    \/ SessionStart
    \/ SessionDirectionInput
    \/ SessionLoopTimerFires
    \/ SubmitScoreResolves
    \/ FetchLeaderboardResolves

SpecSession == Init /\ [][NextSession]_vars

\* The same with what the browser guarantees: a timeout that is due fires,
\* and Leaderboard.fetchLeaderboard resolves, by an answer, a failure or its
\* abort after 5 s.  The fetch of Leaderboard.submitScore has no signal and
\* no timer: nothing makes it resolve when the service does not answer.
SpecSessionLive ==
    /\ Init /\ [][NextSession]_vars
    /\ WF_vars(SessionLoopTimerFires)
    /\ WF_vars(FetchLeaderboardResolves)

\* ------------------------------------------------------------------------
\* The engine's status, as the specification names it
\* ------------------------------------------------------------------------
Status ==
    IF gameState.isPlaying THEN "Running"
    ELSE IF gameState.snake # <<>> THEN "GameOver"
    ELSE IF gameState.difficultyKey # Null THEN "AwaitingStart"
    ELSE "Idle"

\* ------------------------------------------------------------------------
\* Vocabulary of the properties
\* ------------------------------------------------------------------------
HeadOf(g) == g.snake[1]

Neg(v) == Vec(-v.x, -v.y)

Plus(a, b) == Vec(a.x + b.x, a.y + b.y)

HeadOutsideGrid(g) ==
    \/ HeadOf(g).x \notin 0 .. GRID_SIZE - 1
    \/ HeadOf(g).y \notin 0 .. GRID_SIZE - 1

HeadOnOtherSegment(g) == \E i \in 2 .. Len(g.snake) : g.snake[i] = HeadOf(g)

\* A step in which a running game processes a tick: the snake moves.
RunningTick == gameState.isPlaying /\ gameState'.snake # gameState.snake

\* A step that starts a game.
GameStarts == ~gameState.isPlaying /\ gameState'.isPlaying

\* The tick of this step moved the head onto the food.
Captures == RunningTick /\ gameState'.isPlaying /\ HeadOf(gameState') = gameState.food

FoodTimerPending(w) ==
    \E t \in w.timers : t.cb = "relocate" /\ t.id = w.gameState.foodTimerId

LoopTimersPending(w) == {t \in w.timers : t.cb = "loop"}

\* ------------------------------------------------------------------------
\* Properties of the simulation engine
\* ------------------------------------------------------------------------

\* C1: a tick whose new head is outside [0, GRID_SIZE) on an axis or on another
\* segment ends the game on that tick (not playing, no timer left pending);
\* and while the game is over no tick is processed: snake, score, speed and
\* food stay as they are until a game is started.
C1_CollisionEndsGame ==
    [][ /\ (RunningTick /\ (HeadOutsideGrid(gameState') \/ HeadOnOtherSegment(gameState')))
            => (~gameState'.isPlaying /\ timers' = {})
        /\ (Status = "GameOver" /\ ~gameState'.isPlaying)
            => /\ gameState'.snake = gameState.snake
               /\ gameState'.score = gameState.score
               /\ gameState'.speed = gameState.speed
               /\ gameState'.food = gameState.food ]_vars

\* A game that ended with the head on another segment.
C1_Witness ==
    /\ Status = "GameOver"
    /\ HeadOnOtherSegment(gameState)
    /\ timers = {}

\* C2: every tick of a running game commits the buffered direction and puts
\* the head at the old head plus that direction: one unit along one axis.
C2_HeadMovesOneUnit ==
    [][ RunningTick =>
          /\ gameState'.direction = gameState.nextDirection
          /\ HeadOf(gameState') = Plus(HeadOf(gameState), gameState'.direction)
          /\ Abs(HeadOf(gameState').x - HeadOf(gameState).x)
               + Abs(HeadOf(gameState').y - HeadOf(gameState).y) = 1 ]_vars

\* A running game whose last tick moved the head vertically, after a turn.
C2_Witness ==
    /\ gameState.isPlaying
    /\ gameState.direction \in {Vec(0, -1), Vec(0, 1)}
    /\ HeadOf(gameState) = Plus(gameState.snake[2], gameState.direction)

\* C3: a tick adds a segment exactly when the tick before it captured the food
\* (the growth flag is set by a capture and by nothing else, and is cleared by
\* the next tick); a capture adds exactly POINTS_PER_FOOD to the score and
\* any other tick leaves the score alone.
C3_GrowthFollowsCapture ==
    [][ /\ RunningTick =>
              /\ Len(gameState'.snake)
                   = Len(gameState.snake) + (IF gameState.shouldGrow THEN 1 ELSE 0)
              /\ gameState'.shouldGrow = Captures
              /\ gameState'.score
                   = gameState.score + (IF Captures THEN POINTS_PER_FOOD ELSE 0)
        /\ (gameState.isPlaying /\ ~RunningTick) =>
              /\ gameState'.shouldGrow = gameState.shouldGrow
              /\ gameState'.score = gameState.score ]_vars

\* A snake that has grown by one segment on the tick after a capture.
C3_Witness ==
    /\ gameState.isPlaying
    /\ gameState.score = POINTS_PER_FOOD
    /\ Len(gameState.snake) = INITIAL_SNAKE_LENGTH + 1
    /\ ~gameState.shouldGrow

\* C4: a request for the negation of the committed direction leaves the
\* buffered direction as it is, any other request replaces it, and nothing
\* else changes; so the buffered direction is never the negation of the
\* committed one.
C4_NoReversal ==
    /\ [](gameState.nextDirection # Neg(gameState.direction))
    /\ [][ \A d \in KeyDirections :
              DirectionRequest(d) =>
                  gameState' = [gameState EXCEPT !.nextDirection =
                                   IF d = Neg(gameState.direction) THEN @ ELSE d] ]_vars

\* Between two ticks a request has replaced the buffered direction.
C4_Witness ==
    /\ gameState.isPlaying
    /\ gameState.nextDirection # gameState.direction

\* C5: while a game is running the food is a cell of the grid that no segment
\* occupies, and every step that moves the food puts it on such a cell.
C5_FoodOffSnake ==
    /\ [](gameState.isPlaying =>
            (gameState.food \in Cells /\ ~IsOnSnake(gameState, gameState.food)))
    /\ [][ gameState'.food # gameState.food =>
            (gameState'.food \in Cells /\ ~IsOnSnake(gameState', gameState'.food)) ]_vars

\* Food placed after a capture, next to a snake that has grown.
C5_Witness ==
    /\ gameState.isPlaying
    /\ gameState.score = 2 * POINTS_PER_FOOD
    /\ Len(gameState.snake) = INITIAL_SNAKE_LENGTH + 2
    /\ FoodTimerPending(World)

\* C6: while a game is running a relocation timer is pending for the food on
\* the board, the food placed when the game starts included.
C6_FoodTimerAlwaysPending ==
    gameState.isPlaying => FoodTimerPending(World)

\* C7 as stated: the engine never goes from GameOver directly to Running.
C7_NoDirectRestart ==
    [][ ~(Status = "GameOver" /\ Status' = "Running") ]_vars

\* C7 amended: GameOver is left only by a start command, which takes it to
\* Running at once (never to AwaitingStart) with the difficulty retained and
\* the counters reset: score and growth flag are those of the first tick of a
\* new game, the snake has its initial length.
C7_RestartIsDirect ==
    [][ Status = "GameOver" =>
          /\ Status' \in {"GameOver", "Running"}
          /\ Status' = "Running" =>
                /\ gameState'.difficultyKey = gameState.difficultyKey
                /\ Len(gameState'.snake) = INITIAL_SNAKE_LENGTH
                /\ gameState'.score
                     = (IF gameState'.shouldGrow THEN POINTS_PER_FOOD ELSE 0) ]_vars

\* A finished game with points scored, a longer snake and a difficulty to
\* retain: the state a restart command is given in.
C7_Witness ==
    /\ Status = "GameOver"
    /\ gameState.score = 2 * POINTS_PER_FOOD
    /\ gameState.difficultyKey = "HARD"
    /\ ENABLED StartCommand

\* The baseline of C8 for difficulty key k and food f.
IsBaseline(g, k, f) ==
    LET center == GRID_SIZE \div 2
    IN  /\ g.snake = [i \in 1 .. INITIAL_SNAKE_LENGTH |-> Vec(center + 1 - i, center)]
        /\ g.direction = Vec(1, 0)
        /\ g.nextDirection = Vec(1, 0)
        /\ ~g.shouldGrow
        /\ g.score = 0
        /\ g.difficultyKey = k
        /\ g.speed = DIFFICULTY[k].initialSpeed
        /\ g.food = f
        /\ f \in Cells
        /\ ~IsOnSnake(g, f)
        /\ g.isPlaying

\* C8: every start of a game, the first one and a restart alike, hands to its
\* first tick the baseline (three centered segments facing right, both
\* directions right, growth flag clear, score 0, the retained difficulty's
\* initialSpeed, food on a free cell), and the state it leaves is that
\* baseline after one tick to the right.
C8_StartFromBaseline ==
    [][ GameStarts =>
          LET center == GRID_SIZE \div 2
              ahead  == Vec(center + 1, center)
              f      == IF gameState'.shouldGrow THEN ahead ELSE gameState'.food
              k      == gameState.difficultyKey
          IN  /\ k # Null
              /\ IsBaseline(GameStartSetup(World, f).gameState, k, f)
              /\ gameState'.snake
                   = [i \in 1 .. INITIAL_SNAKE_LENGTH |-> Vec(center + 2 - i, center)]
              /\ gameState'.direction = Vec(1, 0)
              /\ gameState'.nextDirection = Vec(1, 0)
              /\ gameState'.difficultyKey = k
              /\ gameState'.score
                   = (IF gameState'.shouldGrow THEN POINTS_PER_FOOD ELSE 0)
              /\ gameState'.speed
                   = (IF gameState'.shouldGrow
                        THEN Max(MIN_SPEED,
                                 DIFFICULTY[k].initialSpeed - DIFFICULTY[k].speedIncrement)
                        ELSE DIFFICULTY[k].initialSpeed) ]_vars

\* A finished game whose score, length and speed all differ from the
\* baseline, with a start command possible: the state a restart is given in.
C8_Witness ==
    /\ Status = "GameOver"
    /\ gameState.score > 0
    /\ Len(gameState.snake) > INITIAL_SNAKE_LENGTH
    /\ gameState.speed < DifficultyOf(gameState).initialSpeed
    /\ gameState.direction # Vec(1, 0)
    /\ ENABLED StartCommand

\* ------------------------------------------------------------------------
\* Properties of validateScore
\* ------------------------------------------------------------------------
Validated == validation # NoValidation

\* The checks of C9 on request body data at server time now.
AllChecksPass(data, now) ==
    LET score == data.score
        gd    == data.gameData
    IN  /\ IsNumber(score)
        /\ score.val >= 0
        /\ score.val % 10 = 0
        /\ score.val <= 10000
        /\ IsNumber(data.timestamp)
        /\ now - data.timestamp.val <= 600000
        /\ data.timestamp.val - now <= 600000
        /\ gd.isObject
        /\ gd.difficulty \in DifficultyKeys
        /\ IsNumber(gd.snakeLength)
        /\ gd.snakeLength.val - (score.val \div 10 + INITIAL_SNAKE_LENGTH) <= 2
        /\ (score.val \div 10 + INITIAL_SNAKE_LENGTH) - gd.snakeLength.val <= 2
        /\ IsNumber(gd.gameTime)
        /\ gd.gameTime.val >= (score.val \div 10) * 500

\* C9: validateScore accepts a request body exactly when the score is a
\* non-negative multiple of 10 not above the ceiling, the timestamp is within
\* 600000 ms of the server's time on either side, the difficulty is EASY,
\* MEDIUM or HARD, the segment count is within 2 of score / 10 + 3 and the play
\* time is at least (score / 10) * 500.
C9_AcceptsIffAllChecksPass ==
    Validated => (validation.valid <=> AllChecksPass(submission, serverNow))

\* The accepted example of the specification: score 120, 15 segments, 7000 ms.
C9_Witness ==
    /\ Validated
    /\ validation.valid
    /\ submission.score = Num(120)
    /\ submission.timestamp = Num(serverNow)
    /\ submission.gameData.difficulty = "EASY"
    /\ submission.gameData.snakeLength = Num(15)
    /\ submission.gameData.gameTime = Num(7000)

\* All fields of the request body other than the score pass their checks.
OtherFieldsConsistent(data, now) ==
    LET gd    == data.gameData
        foods == data.score.val \div 10
    IN  /\ IsNumber(data.timestamp)
        /\ Abs(now - data.timestamp.val) <= 600000
        /\ gd.isObject
        /\ gd.difficulty \in DifficultyKeys
        /\ IsNumber(gd.snakeLength)
        /\ gd.snakeLength.val = foods + INITIAL_SNAKE_LENGTH
        /\ IsNumber(gd.gameTime)
        /\ gd.gameTime.val >= foods * 500

\* C10 as stated: a score above grid cell count x points per food, 20 * 20 * 10,
\* is rejected.
C10_RejectsAboveTheoreticalMax ==
    (Validated /\ IsNumber(submission.score)
        /\ submission.score.val > 20 * 20 * POINTS_PER_FOOD)
    => ~validation.valid

\* C10 amended: a score above 10000 is rejected, whatever the other fields.
C10_RejectsAboveCeiling ==
    (Validated /\ IsNumber(submission.score) /\ submission.score.val > 10000)
    => ~validation.valid

\* A score above 10000 rejected although every other field is consistent
\* with it.
C10_Witness ==
    /\ Validated
    /\ submission.score = Num(10010)
    /\ OtherFieldsConsistent(submission, serverNow)
    /\ ~validation.valid

\* ------------------------------------------------------------------------
\* Claims on the submit-score function
\* ------------------------------------------------------------------------

\* The runs of the handler that have returned.
Returned(i) == requests[i].pc = "done"

StatusOf(i) == requests[i].response.status

\* C11: two submissions rejected by validation get the same 400 response,
\* whichever checks they failed.
C11_RejectionsIndistinguishable ==
    \A i, j \in Slots :
        (Returned(i) /\ Returned(j) /\ StatusOf(i) = 400 /\ StatusOf(j) = 400)
            => requests[i].response = requests[j].response

\* The requests of the log that came from the address of request k, up to k.
SameSourceUpTo(k) == {j \in 1..k : arrivals[j].ip = arrivals[k].ip}

\* The request that opened the window request k arrives in: the first
\* request of its address, and after that the first request that arrives
\* more than RATE_LIMIT_WINDOW after the opening of the window before.
RECURSIVE WindowOpener(_)
WindowOpener(k) ==
    LET earlier == SameSourceUpTo(k) \ {k}
    IN  IF earlier = {} THEN k
        ELSE LET prev   == CHOOSE j \in earlier : \A h \in earlier : h <= j
                 opener == WindowOpener(prev)
             IN  IF arrivals[k].at - arrivals[opener].at > RATE_LIMIT_WINDOW
                     THEN k
                     ELSE opener

\* The position of request k among the requests of its window.
PositionInWindow(k) ==
    Cardinality({j \in SameSourceUpTo(k) : WindowOpener(j) = WindowOpener(k)})

\* C12: of the requests of one address that arrive in one window, exactly
\* the first RATE_LIMIT_MAX are admitted; the later ones are answered 429
\* and are not validated.
C12_FirstAdmittedRestDenied ==
    /\ \A k \in 1..Len(arrivals) :
          arrivals[k].admitted <=> PositionInWindow(k) <= RATE_LIMIT_MAX
    /\ \A i \in Slots :
          (requests[i].n > 0 /\ ~arrivals[requests[i].n].admitted)
              => /\ Returned(i)
                 /\ StatusOf(i) = 429
                 /\ requests[i].validation = NoValidation

\* A request denied as the one after the last admitted of its window, some
\* time after the window was opened.
C12_Witness ==
    \E i \in Slots :
        LET k == requests[i].n
        IN  /\ k > 0
            /\ PositionInWindow(k) = RATE_LIMIT_MAX + 1
            /\ arrivals[k].at > arrivals[WindowOpener(k)].at
            /\ StatusOf(i) = 429

\* The requests of the address of k admitted in the RATE_LIMIT_WINDOW
\* milliseconds that start when k arrives.
AdmittedInIntervalFrom(k) ==
    {j \in 1..Len(arrivals) :
        /\ arrivals[j].ip = arrivals[k].ip
        /\ arrivals[j].admitted
        /\ arrivals[j].at >= arrivals[k].at
        /\ arrivals[j].at < arrivals[k].at + RATE_LIMIT_WINDOW}

\* C13: in every interval of RATE_LIMIT_WINDOW milliseconds, wherever it
\* starts, at most RATE_LIMIT_MAX requests of one address are admitted.
C13_SlidingWindow ==
    \A k \in 1..Len(arrivals) :
        Cardinality(AdmittedInIntervalFrom(k)) <= RATE_LIMIT_MAX

\* The run in slot i is that of a logged (POST) request.
Logged(i) == requests[i].n > 0

\* The ids of the entries of a list of scores.
IdsOf(s) == {s[k].id : k \in 1..Len(s)}

\* C14: a request the rate limiter denies is answered 429 without being
\* validated and without a call to the store; a request failing validation
\* is answered 400 without a call to the store; the store is read only for an
\* admitted request that passed validation, written only after it was read,
\* and such a request is answered 200 when the write succeeds and 500 when
\* the store fails.
C14_LimiterThenValidatorThenStore ==
    /\ \A i \in Slots :
          LET r == requests[i]
          IN  Logged(i) =>
                /\ ~arrivals[r.n].admitted =>
                      /\ Returned(i) /\ StatusOf(i) = 429
                      /\ r.validation = NoValidation
                      /\ r.reads = 0 /\ r.writes = 0
                /\ (Returned(i) /\ StatusOf(i) = 400) =>
                      /\ arrivals[r.n].admitted
                      /\ r.validation # NoValidation /\ ~r.validation.valid
                      /\ r.reads = 0 /\ r.writes = 0
                /\ (r.reads > 0 \/ r.pc \in {"read", "write"}) =>
                      /\ arrivals[r.n].admitted
                      /\ r.validation.valid
                /\ r.writes > 0 => r.reads > r.readFailed
                /\ (Returned(i) /\ StatusOf(i) = 200) =>
                      /\ r.reads > r.readFailed
                      /\ r.writes > r.writeFailed
                /\ (Returned(i) /\ r.validation.valid) =>
                      /\ StatusOf(i) \in {200, 500}
                      /\ StatusOf(i) = 500 =>
                            r.readFailed = r.reads \/ r.writeFailed = r.writes
    /\ \A id \in IdsOf(ScoresOf(store)) : arrivals[id].admitted

\* One request was denied by the rate limiter while another went through
\* validation and the store.
C14_Witness ==
    \E i, j \in Slots :
        /\ Logged(i) /\ Returned(i) /\ StatusOf(i) = 429
        /\ Logged(j) /\ Returned(j) /\ StatusOf(j) = 200
        /\ requests[j].n \in IdsOf(ScoresOf(store))

\* a is ranked before b: higher score, or the same score and an earlier
\* timestamp.
RankedBefore(a, b) ==
    a.score > b.score \/ (a.score = b.score /\ a.timestamp < b.timestamp)

\* No entry of the list is ranked before an entry that precedes it.
IsRanked(s) == \A i, j \in 1..Len(s) : i < j => ~RankedBefore(s[j], s[i])

EntriesOf(s) == {s[k] : k \in 1..Len(s)}

\* s is the top of the entries all: ranked, as long as the limit allows, and
\* no entry left out is ranked before an entry kept.
IsTopOf(s, all) ==
    /\ IsRanked(s)
    /\ EntriesOf(s) \subseteq all
    /\ Len(s) = Min(Cardinality(all), LeaderboardSize)
    /\ Cardinality(EntriesOf(s)) = Len(s)
    /\ \A x \in all \ EntriesOf(s), y \in EntriesOf(s) : ~RankedBefore(x, y)

\* The write of the run in slot i resolves in this step, and the blob is
\* still the one the run read: no other run has written in between.
WritesUndisturbed(i) ==
    /\ requests[i].pc = "write"
    /\ requests'[i].pc = "done"
    /\ requests'[i].response.status = 200
    /\ requests[i].existing = store

\* C15: a submission processed with no concurrent writer persists the
\* entries stored before plus the new entry, ranked by (score descending,
\* timestamp ascending) and cut to LeaderboardSize, and reports the 1-based
\* position of the new entry in that list, or null when it was cut away.
C15_PersistsRankedTop ==
    [][\A i \in Slots :
          WritesUndisturbed(i) =>
              LET new       == NewEntry(requests[i].data, requests[i].n)
                  persisted == ScoresOf(store')
                  rank      == requests'[i].response.rank
              IN  /\ store' # NoBlob
                  /\ IsTopOf(persisted, EntriesOf(ScoresOf(store)) \cup {new})
                  /\ IF new \in EntriesOf(persisted)
                         THEN rank # NoRank /\ persisted[rank] = new
                         ELSE rank = NoRank]_vars

\* A third submission with the best score has gone through alone: the blob
\* is full, holds it first, and an entry stored before has been cut away.
C15_Witness ==
    \E i \in Slots :
        /\ Returned(i) /\ StatusOf(i) = 200
        /\ requests[i].response.rank = 1
        /\ requests[i].n = MaxSubmissions
        /\ Len(ScoresOf(store)) = LeaderboardSize
        /\ ScoresOf(store)[1].id = requests[i].n
        /\ \A k \in 2..LeaderboardSize : ScoresOf(store)[k].score < ScoresOf(store)[1].score
        /\ \A j \in Slots \ {i} : Returned(j) /\ StatusOf(j) = 200
                                    /\ requests[j].n \notin IdsOf(ScoresOf(store))

\* C16: whatever the interleaving of the runs, the stored list has at most
\* LeaderboardSize entries and is ranked by (score descending, timestamp
\* ascending).
C16_StoredListWellFormed ==
    /\ Len(ScoresOf(store)) <= LeaderboardSize
    /\ IsRanked(ScoresOf(store))

\* Two runs raced: both are answered 200 with a rank, one entry is lost,
\* and the stored list is full and holds an earlier request's entry below a
\* later one's.
C16_Witness ==
    /\ Len(ScoresOf(store)) = LeaderboardSize
    /\ ScoresOf(store)[1].id > ScoresOf(store)[LeaderboardSize].id
    /\ ScoresOf(store)[1].score > ScoresOf(store)[LeaderboardSize].score
    /\ \A i \in Slots : Returned(i) /\ StatusOf(i) = 200
                          /\ requests[i].response.rank # NoRank
    /\ \E i \in Slots : requests[i].n \notin IdsOf(ScoresOf(store))

\* Every entry of the list is ranked before the entry new.
RanksBelowAll(new, s) == \A k \in 1..Len(s) : RankedBefore(s[k], new)

C18_EarlierTimestampFirst ==
    \A i, j \in 1..Len(ScoresOf(store)) :
        LET s == ScoresOf(store)
        IN  (s[i].score = s[j].score /\ s[i].timestamp < s[j].timestamp) => i < j

\* Two stored entries with the same score, the one with the earlier
\* timestamp submitted later and stored first.
C18_Witness ==
    \E i, j \in 1..Len(ScoresOf(store)) :
        LET s == ScoresOf(store)
        IN  /\ s[i].score = s[j].score
            /\ s[i].timestamp < s[j].timestamp
            /\ s[i].id > s[j].id
            /\ i < j

\* The write of the run in slot i resolves in this step.
WriteResolves(i) ==
    /\ requests[i].pc = "write"
    /\ requests'[i].pc = "done"
    /\ requests'[i].response.status = 200

\* The run in slot j was answered 200 and its entry is stored, but the run
\* in slot i, whose write is pending, read the blob before that.
WroteBehindTheBackOf(j, i) ==
    /\ i # j
    /\ Returned(j) /\ StatusOf(j) = 200
    /\ requests[j].n \in IdsOf(ScoresOf(store))
    /\ requests[i].pc = "write"
    /\ requests[j].n \notin IdsOf(ScoresOf(requests[i].existing))

StrictlyIncreasing(w) == \A a, b \in 1..Len(w) : a < b => w[a] < w[b]

\* C20: for a request that reaches the store, store.get and store.setJSON
\* are each called at most StoreRetries times, with a strictly longer wait
\* before each further call; the run goes on as soon as a call succeeds, and
\* it is answered 500 exactly when all the calls of the read, or all the
\* calls of the write, have failed.
C20_RetriesThenFails ==
    \A i \in Slots :
        LET r == requests[i]
        IN  r.validation.valid =>
              /\ r.reads <= StoreRetries /\ r.writes <= StoreRetries
              /\ r.reads - r.readFailed \in {0, 1}
              /\ r.writes - r.writeFailed \in {0, 1}
              /\ r.pc = "read" => r.reads = r.readFailed /\ r.writes = 0
              /\ r.reads > r.readFailed => r.pc \in {"write", "done"}
              /\ r.pc = "write" => r.reads = r.readFailed + 1 /\ r.writes = r.writeFailed
              /\ r.writes > r.writeFailed => Returned(i) /\ StatusOf(i) = 200
              /\ Len(r.readWaits) = Min(r.readFailed, StoreRetries - 1)
              /\ Len(r.writeWaits) = Min(r.writeFailed, StoreRetries - 1)
              /\ StrictlyIncreasing(r.readWaits)
              /\ StrictlyIncreasing(r.writeWaits)
              /\ Returned(i) =>
                    /\ StatusOf(i) = 500 <=>
                          \/ r.readFailed = StoreRetries
                          \/ r.writeFailed = StoreRetries
                    /\ StatusOf(i) = 200 <=> r.writes = r.writeFailed + 1

\* One run was answered 200 after two failed reads and two failed writes,
\* another 500 after a read on the third call and three failed writes.
C20_Witness ==
    \E i, j \in Slots :
        /\ Returned(i) /\ StatusOf(i) = 200
        /\ requests[i].readFailed = StoreRetries - 1
        /\ requests[i].writeFailed = StoreRetries - 1
        /\ Len(requests[i].readWaits) = StoreRetries - 1
        /\ Returned(j) /\ StatusOf(j) = 500
        /\ requests[j].reads = StoreRetries
        /\ requests[j].readFailed = StoreRetries - 1
        /\ requests[j].writeFailed = StoreRetries

\* ------------------------------------------------------------------------
\* Claims on the game: timers, speed, shape of the snake, start
\* ------------------------------------------------------------------------

RelocationTimersPending(w) == {t \in w.timers : t.cb = "relocate"}

\* C24: while the game is not running no tick timer and no food relocation
\* timer is pending, and while it is running at most one of each is.
C24_TimersFollowTheGame ==
    /\ ~gameState.isPlaying => timers = {}
    /\ gameState.isPlaying =>
          /\ Cardinality(LoopTimersPending(World)) <= 1
          /\ Cardinality(RelocationTimersPending(World)) <= 1

\* A game that ended after a capture, when both timers were pending, and
\* left none behind.
C24_Witness ==
    /\ Status = "GameOver"
    /\ gameState.score > 0
    /\ gameState.foodTimerId = NoTimer
    /\ timers = {}

\* One unit apart in exactly one axis.
Adjacent(a, b) ==
    \/ (a.x = b.x /\ Abs(a.y - b.y) = 1)
    \/ (a.y = b.y /\ Abs(a.x - b.x) = 1)

\* C28: once a game has been started the snake has at least
\* INITIAL_SNAKE_LENGTH segments, and every two consecutive segments are one
\* unit apart in exactly one axis.
C28_SnakeConnected ==
    gameState.snake # <<>> =>
        /\ Len(gameState.snake) >= INITIAL_SNAKE_LENGTH
        /\ \A i \in 1 .. Len(gameState.snake) - 1 :
              Adjacent(gameState.snake[i], gameState.snake[i + 1])

\* A snake that has grown and has a bend.
C28_Witness ==
    /\ gameState.isPlaying
    /\ Len(gameState.snake) > INITIAL_SNAKE_LENGTH
    /\ \E i, j \in 1 .. Len(gameState.snake) :
          /\ gameState.snake[i].x # gameState.snake[j].x
          /\ gameState.snake[i].y # gameState.snake[j].y

\* C29: while no difficulty has been selected, a start command changes no
\* part of the game state and starts no timer: the only step that changes
\* anything is the selection of a difficulty.
C29_StartIgnoredWithoutDifficulty ==
    [][(gameState.difficultyKey = Null /\ gameState'.difficultyKey = Null)
          => UNCHANGED <<gameState, timers>>]_vars

\* The start command can be given while no difficulty is selected.
C29_Witness ==
    /\ gameState.difficultyKey = Null
    /\ ~gameState.isPlaying
    /\ timers = {}
    /\ ENABLED StartCommand

\* ------------------------------------------------------------------------
\* Claims on the rate limiter: the end of a window
\* ------------------------------------------------------------------------

\* The request of the address of k that arrived last before k.
PreviousOfSource(k) ==
    CHOOSE j \in SameSourceUpTo(k) \ {k} : \A h \in SameSourceUpTo(k) \ {k} : h <= j

\* Request k arrives more than RATE_LIMIT_WINDOW after the opening of the
\* window its address was in, and a request of that window was denied.
ArrivesAfterDeniedWindow(k) ==
    /\ SameSourceUpTo(k) # {k}
    /\ LET opener == WindowOpener(PreviousOfSource(k))
       IN  /\ arrivals[k].at - arrivals[opener].at > RATE_LIMIT_WINDOW
           /\ \E j \in SameSourceUpTo(k) \ {k} :
                 /\ WindowOpener(j) = opener
                 /\ ~arrivals[j].admitted

\* C30: a request that arrives more than RATE_LIMIT_WINDOW after the
\* opening of a window in which requests of its address were denied is
\* admitted, and it leaves a new window for its address that starts at its
\* arrival with count 1, whenever the denied requests arrived.
C30_AdmittedAfterWindow ==
    \A k \in 1..Len(arrivals) :
        ArrivesAfterDeniedWindow(k) =>
            /\ arrivals[k].admitted
            /\ k = Len(arrivals) =>
                  rateLimitMap[arrivals[k].ip] = <<RateLimitEntry(arrivals[k].at, 1)>>

\* An address denied at the very end of its window and admitted one
\* millisecond later.
C30_Witness ==
    \E k \in 1..Len(arrivals) :
        /\ ArrivesAfterDeniedWindow(k)
        /\ arrivals[k].admitted
        /\ LET j == PreviousOfSource(k)
           IN  /\ ~arrivals[j].admitted
               /\ arrivals[j].at = arrivals[WindowOpener(j)].at + RATE_LIMIT_WINDOW
               /\ arrivals[k].at = arrivals[j].at + 1

\* ------------------------------------------------------------------------
\* Claims on food placement and on the speed
\* ------------------------------------------------------------------------

\* The next call of Game.loop moves the snake onto the food without ending
\* the game, and so calls Food.regenerate for the moved snake.
NextTickCaptures ==
    /\ gameState.isPlaying
    /\ LoopTimersPending(World) # {}
    /\ LET moved == SnakeMove(gameState)
       IN  /\ ~CheckWallCollision(moved)
           /\ ~CheckSelfCollision(moved)
           /\ FoodCheckCollision(moved)

\* C25: food placement terminates.  Whenever the next tick captures the
\* food there is a cell off the moved snake for the retry loop of
\* Food.generate to find, and whenever a relocation timer is pending there
\* is a cell off the snake.
C25_FoodPlacementTerminates ==
    /\ NextTickCaptures => FoodDraw(SnakeMove(gameState)) # {}
    /\ (gameState.isPlaying /\ RelocationTimersPending(World) # {})
          => FoodDraw(gameState) # {}

\* The number of captures of the game so far.
CapturesOf(g) == g.score \div POINTS_PER_FOOD

\* C27: within one game the speed never increases and never drops below
\* MIN_SPEED; a tick that captures lowers it by the difficulty's
\* speedIncrement, down to MIN_SPEED at most, and every other step of the
\* game (the other ticks, relocations, direction input) leaves it as it is.
C27_SpeedStepsDownToFloor ==
    [][(gameState.isPlaying /\ gameState'.isPlaying) =>
          /\ gameState'.speed <= gameState.speed
          /\ gameState'.speed >= MIN_SPEED
          /\ IF gameState'.score = gameState.score + POINTS_PER_FOOD
                THEN gameState'.speed =
                        Max(MIN_SPEED,
                            gameState.speed - DifficultyOf(gameState).speedIncrement)
                ELSE gameState'.speed = gameState.speed]_vars

\* A game whose speed is held at MIN_SPEED: without the floor its captures
\* would have taken it below.
C27_Witness ==
    /\ gameState.isPlaying
    /\ gameState.speed = MIN_SPEED
    /\ DifficultyOf(gameState).initialSpeed
          - CapturesOf(gameState) * DifficultyOf(gameState).speedIncrement < MIN_SPEED
    /\ NextTickCaptures

\* ------------------------------------------------------------------------
\* Claims on the session: the leaderboard path of a finished game
\* ------------------------------------------------------------------------

\* The step ends a game.
GameEnds == gameState.isPlaying /\ ~gameState'.isPlaying

\* The submission made of the state the step leaves.
FinalSubmission ==
    [ pc   |-> "submitting",
      body |-> [ score     |-> Num(gameState'.score),
                 timestamp |-> Num(ClientNow(playTime')),
                 gameData  |-> [isObject    |-> TRUE,
                                difficulty  |-> gameState'.difficultyKey,
                                snakeLength |-> Num(Len(gameState'.snake)),
                                gameTime    |-> Num(playTime')] ],
      submitResult |-> NoSubmitResult ]

\* C22: a step that ends a game issues exactly one submission, built from
\* the final score, difficulty key, number of segments and play time; no
\* other step issues one; and the leaderboard is queried in the step that
\* receives the submission's result, success or failure, not before.
C22_SubmitThenQuery ==
    [][/\ GameEnds =>
             \E p \in PathSlots :
                 /\ paths[p].pc = "idle"
                 /\ paths'[p] = FinalSubmission
                 /\ \A q \in PathSlots \ {p} : paths'[q] = paths[q]
       /\ ~GameEnds =>
             \A p \in PathSlots :
                 paths'[p].pc = "submitting" => paths'[p] = paths[p]
       /\ \A p \in PathSlots :
             (paths'[p].pc = "fetching" /\ paths[p].pc # "fetching")
                 => /\ paths[p].pc = "submitting"
                    /\ paths'[p].submitResult \in SubmitResults]_vars

\* The leaderboard is being fetched after the submission of a game with
\* captures has failed.
C22_Witness ==
    \E p \in PathSlots :
        /\ paths[p].pc = "fetching"
        /\ ~paths[p].submitResult.success
        /\ ~gameState.isPlaying
        /\ gameState.score > 0

\* C23: whenever no game is running and a difficulty is selected, the
\* start command starts a new game, wherever the calls of Game.gameOver
\* stand and whatever they were answered, and leaves them as they are.
C23_StartWhateverThePath ==
    (~gameState.isPlaying /\ gameState.difficultyKey # Null)
        => ENABLED ( /\ SessionStart
                     /\ gameState'.isPlaying
                     /\ playTime' = 0
                     /\ paths' = paths
                     /\ leaderboard' = leaderboard )

\* A game just started while the leaderboard is fetched after a rate-limited
\* submission, the fetch for an earlier game having timed out.
C23_Witness ==
    /\ gameState.isPlaying
    /\ playTime = 0
    /\ leaderboard.error = RequestTimedOut.error
    /\ \E p \in PathSlots :
          /\ paths[p].pc = "fetching"
          /\ paths[p].submitResult = SubmitResultOf(Response(429,
                 "Rate limit exceeded. Please wait before submitting again.", NoRank))

\* C26: the play time of every submission the game builds is at least 500
\* ms for every 10 points of its score, and the submission passes the
\* minimum play time check of validateScore.
C26_PlayTimeCoversScore ==
    \A p \in PathSlots :
        paths[p].pc = "submitting" =>
            LET body == paths[p].body
            IN  /\ body.gameData.gameTime.val >= (body.score.val \div 10) * 500
                /\ ValidateScore(body, body.timestamp.val).error # "Invalid game time"

\* ------------------------------------------------------------------------
\* Claims on get-leaderboard: the cache
\* ------------------------------------------------------------------------

\* A GET arrives and run i of the handler takes it.
GetArrivesAt(i) ==
    /\ queries[i].pc \in {"free", "done"}
    /\ queries'[i] # queries[i]
    /\ queries'[i].response.status # 405

\* The read of run i resolves.
ReadResolvesAt(i) ==
    /\ queries[i].pc = "read"
    /\ queries'[i].pc = "done"
    /\ queries'[i].response.status = 200

\* C21: a GET that arrives less than CACHE_TTL after the arrival of the
\* request that last set the cache is answered with the cached scores and
\* lastUpdated without a call of store.get, and leaves the cache as it is;
\* a GET that arrives CACHE_TTL or more after it, or finds no cache, calls
\* store.get, and when the read resolves the cache is what it read and so
\* is the answer.
C21_CacheServedWithinTtl ==
    [][\A i \in QuerySlots :
          /\ GetArrivesAt(i) =>
                IF cachedData # NoCache /\ serverNow - refresher < CACHE_TTL
                    THEN /\ queries'[i].pc = "done"
                         /\ queries'[i].reads = 0
                         /\ queries'[i].response =
                               QueryResponse(200, cachedData[1].scores,
                                             cachedData[1].lastUpdated, "none")
                         /\ UNCHANGED <<cachedData, cacheTimestamp, store>>
                    ELSE /\ queries'[i].pc = "read"
                         /\ queries'[i].reads = 0
          /\ ReadResolvesAt(i) =>
                LET read == IF store = NoBlob THEN DefaultBlob(serverNow) ELSE store[1]
                IN  /\ queries'[i].reads = queries[i].reads + 1
                    /\ cachedData' = <<read>>
                    /\ queries'[i].response =
                          QueryResponse(200, read.scores, read.lastUpdated, "none")]_vars

\* A GET answered from the cache one millisecond before it expires, with
\* the scores of the cache although the store has changed, and a GET that
\* has read the store and left the cache equal to it.
C21_Witness ==
    \E i, j \in QuerySlots :
        /\ queries[i].pc = "done"
        /\ queries[i].response.status = 200
        /\ queries[i].reads = 0
        /\ queries[i].now = refresher + CACHE_TTL - 1
        /\ queries[i].response.scores = <<>>
        /\ queries[j].pc = "done"
        /\ queries[j].response.status = 200
        /\ queries[j].reads > 0
        /\ queries[j].response.scores # <<>>
        /\ store # NoBlob
        /\ cachedData = store

\* ------------------------------------------------------------------------
\* Claims on the validator: the reason reported
\* ------------------------------------------------------------------------

\* The checks of the validator, each on its own, on the request body
\* validated.
ScoreFormatFails ==
    ~IsNumber(submission.score) \/ submission.score.val % 10 # 0

ScoreRangeFails ==
    submission.score.val < 0 \/ submission.score.val > 10000

TimestampFails ==
    \/ ~IsNumber(submission.timestamp)
    \/ serverNow - submission.timestamp.val > 600000
    \/ submission.timestamp.val - serverNow > 600000

GameDataMissing == ~submission.gameData.isObject

DifficultyFails ==
    GameDataMissing \/ submission.gameData.difficulty \notin DifficultyKeys

SegmentCountFails ==
    LET implied == submission.score.val \div POINTS_PER_FOOD + INITIAL_SNAKE_LENGTH
        length  == submission.gameData.snakeLength
    IN  \/ GameDataMissing
        \/ ~IsNumber(length)
        \/ length.val > implied + 2
        \/ length.val < implied - 2

PlayTimeFails ==
    \/ GameDataMissing
    \/ ~IsNumber(submission.gameData.gameTime)
    \/ submission.gameData.gameTime.val < (submission.score.val \div POINTS_PER_FOOD) * 500

\* The reason of the first failing of the five checks, in their order.
ReasonOfFive ==
    IF ScoreFormatFails THEN "Invalid score format"
    ELSE IF ScoreRangeFails THEN "Score out of range"
    ELSE IF TimestampFails THEN "Timestamp expired"
    ELSE IF DifficultyFails THEN "Invalid difficulty"
    ELSE IF SegmentCountFails THEN "Invalid game data"
    ELSE "Invalid game time"

\* The same with the check that gameData is an object, after the timestamp.
ReasonOfSix ==
    IF ScoreFormatFails THEN "Invalid score format"
    ELSE IF ScoreRangeFails THEN "Score out of range"
    ELSE IF TimestampFails THEN "Timestamp expired"
    ELSE IF GameDataMissing THEN "Missing game data"
    ELSE IF DifficultyFails THEN "Invalid difficulty"
    ELSE IF SegmentCountFails THEN "Invalid game data"
    ELSE "Invalid game time"

\* C31 as stated: the reason of a rejection is that of the first failing
\* check in the order score, timestamp, difficulty, segment count, play
\* time.
C31_FirstOfFiveChecks ==
    (Validated /\ ~validation.valid) => validation.error = ReasonOfFive

\* C31: the reason of a rejection is that of the first failing check in
\* the order score format, score range, timestamp, presence of gameData,
\* difficulty, segment count, play time.
C31_FirstFailingCheck ==
    (Validated /\ ~validation.valid) => validation.error = ReasonOfSix

\* A body with a fresh timestamp whose difficulty, segment count and play
\* time all fail: the difficulty is reported.
C31_Witness ==
    /\ Validated
    /\ ~ScoreFormatFails
    /\ ~ScoreRangeFails
    /\ ~TimestampFails
    /\ ~GameDataMissing
    /\ DifficultyFails
    /\ SegmentCountFails
    /\ PlayTimeFails
    /\ validation.error = "Invalid difficulty"

\* A call of store.get by run i rejects.
ReadRejectsAt(i) ==
    /\ queries[i].pc = "read"
    /\ queries'[i].reads = queries[i].reads + 1
    /\ queries'[i].response.status # 200

\* C32: when store.get rejects, the run tries again until it has called it
\* StoreRetries times; the rejection of the last call is answered 500 with
\* an empty score list, and no rejection changes the cached data or its
\* timestamp.  No run answers 500 otherwise.
C32_ReadFailureLeavesCache ==
    [][\A i \in QuerySlots :
          /\ ReadRejectsAt(i) =>
                /\ UNCHANGED <<cachedData, cacheTimestamp>>
                /\ IF queries'[i].reads = StoreRetries
                      THEN /\ queries'[i].pc = "done"
                           /\ queries'[i].response =
                                 QueryResponse(500, <<>>, 0, "Server error")
                      ELSE /\ queries'[i].pc = "read"
                           /\ queries'[i].response = NoQueryResponse
          /\ (queries'[i].response.status = 500 /\ queries[i].response.status # 500)
                => /\ ReadRejectsAt(i)
                   /\ queries'[i].reads = StoreRetries]_vars

\* A GET that found the cache expired, failed to read the store and was
\* answered 500, the cache being what it was when the GET arrived.
C32_Witness ==
    \E i \in QuerySlots :
        /\ queries[i].pc = "done"
        /\ queries[i].response.status = 500
        /\ queries[i].reads = StoreRetries
        /\ cachedData # NoCache
        /\ cachedData # store
        /\ queries[i].now - cacheTimestamp >= CACHE_TTL

\* The segment count the validator expects for the score of body.
ExpectedLength(body) == (body.score.val \div 10) + INITIAL_SNAKE_LENGTH

\* C34: once a game has been started, between two handlers the segment
\* count plus one for a pending growth is INITIAL_SNAKE_LENGTH + score / 10;
\* no growth is pending when the game is over, and the body Game.gameOver
\* posts carries exactly the segment count the validator expects, which the
\* validator's segment count check accepts.
C34_SegmentCountFollowsScore ==
    /\ gameState.snake # <<>> =>
          /\ Len(gameState.snake) + (IF gameState.shouldGrow THEN 1 ELSE 0)
                = INITIAL_SNAKE_LENGTH + gameState.score \div POINTS_PER_FOOD
          /\ ~gameState.isPlaying => ~gameState.shouldGrow
    /\ \A p \in PathSlots :
          paths[p].pc = "submitting" =>
             /\ paths[p].body.gameData.snakeLength = Num(ExpectedLength(paths[p].body))
             /\ ValidateScore(paths[p].body, paths[p].body.timestamp.val).error
                   \in {"none", "Invalid game time"}

\* A game that captured the food on its first tick and ran into the wall on
\* the second, the tick on which the tail was kept: four segments are
\* submitted with a score of 10.
C34_Witness ==
    /\ ~gameState.isPlaying
    /\ gameState.score = POINTS_PER_FOOD
    /\ Len(gameState.snake) = INITIAL_SNAKE_LENGTH + 1
    /\ CheckWallCollision(gameState)
    /\ \E p \in PathSlots :
          /\ paths[p].pc = "submitting"
          /\ paths[p].body.score = Num(POINTS_PER_FOOD)
          /\ paths[p].body.gameData.snakeLength = Num(INITIAL_SNAKE_LENGTH + 1)

\* Some segment of g is outside the grid.
SegmentOutsideGrid(g) == \E i \in 1 .. Len(g.snake) : g.snake[i] \notin Cells

\* Two segments of g are on the same cell.
DuplicatedCell(g) ==
    \E i, j \in 1 .. Len(g.snake) : i # j /\ g.snake[i] = g.snake[j]

\* C35: between the handlers of a running game every segment is a cell of
\* the grid and no two segments share a cell; a segment outside the grid or
\* a shared cell is found in the GameOver state only.
C35_SegmentsInGridAndDistinct ==
    /\ Status = "Running" =>
          ~SegmentOutsideGrid(gameState) /\ ~DuplicatedCell(gameState)
    /\ (SegmentOutsideGrid(gameState) \/ DuplicatedCell(gameState)) =>
          Status = "GameOver"

\* A snake that has grown to its longest and still runs, its head next to a
\* segment other than its neck.
C35_Witness ==
    /\ Status = "Running"
    /\ Len(gameState.snake) = INITIAL_SNAKE_LENGTH + MaxFood
    /\ \E i \in 3 .. Len(gameState.snake) :
          Adjacent(HeadOf(gameState), gameState.snake[i])

\* The last segment of g.
TailOf(g) == g.snake[Len(g.snake)]

\* The buffered direction leads the head onto the cell of the tail.
HeadsForTail(g) == Plus(HeadOf(g), g.nextDirection) = TailOf(g)

\* C36: a tick that moves the head onto the cell the tail occupied before the
\* tick leaves the game running when no growth was pending (the tail has
\* left the cell), and ends the game when growth was pending (the tail was
\* kept).
C36_TailLeavesBeforeCollisionCheck ==
    [][(RunningTick /\ HeadsForTail(gameState)) =>
          /\ HeadOf(gameState') = TailOf(gameState)
          /\ IF gameState.shouldGrow
                THEN /\ ~gameState'.isPlaying
                     /\ TailOf(gameState') = TailOf(gameState)
                     /\ HeadOnOtherSegment(gameState')
                ELSE /\ gameState'.isPlaying
                     /\ ~HeadOnOtherSegment(gameState')]_vars

\* A running snake with no growth pending whose next tick takes the head
\* onto the cell of its tail.
C36_Witness ==
    /\ gameState.isPlaying
    /\ ~gameState.shouldGrow
    /\ HeadsForTail(gameState)
    /\ \E t \in timers : t.cb = "loop"

\* The same with growth pending.
GrowingHeadsForTail ==
    /\ gameState.isPlaying
    /\ gameState.shouldGrow
    /\ HeadsForTail(gameState)
    /\ \E t \in timers : t.cb = "loop"

\* A call of Game.gameOver resumes after one of its awaits.
ResponseArrives == \E p \in PathSlots : paths'[p].pc # paths[p].pc /\ paths[p].pc # "idle"

\* C38: when Leaderboard.submitScore or Leaderboard.fetchLeaderboard resolves,
\* whether a new game has been started meanwhile or not, the step changes
\* nothing of the game (snake, direction, nextDirection, food, score, speed,
\* isPlaying, the timer ids and the pending timers); of the leaderboard it
\* changes at most scores, error and playerRank.
C38_LateResponsesLeaveGame ==
    [][ResponseArrives =>
          /\ gameState' = gameState
          /\ timers' = timers
          /\ playTime' = playTime
          /\ leaderboard'.loading = leaderboard.loading]_vars

\* A new game is running and has scored while the submission of the
\* previous game is still unanswered.
C38_Witness ==
    /\ gameState.isPlaying
    /\ gameState.score > 0
    /\ \E p \in PathSlots :
          /\ paths[p].pc = "submitting"
          /\ paths[p].body.score.val # gameState.score

\* Run i of the handler has answered, and not with 200.
EndedWithout200(i) ==
    requests[i].pc = "done" /\ requests[i].response.status # 200

\* C40: a run of the handler that has answered 405, 429, 400 or 500 has made
\* no call of store.setJSON that resolved, and the step in which it answers
\* leaves the blob as it is; the blob changes only in the step in which a run
\* answers 200.
C40_FailedRequestsLeaveStore ==
    /\ [](\A i \in Slots :
            EndedWithout200(i) => requests[i].writes = requests[i].writeFailed)
    /\ [][/\ \A i \in Slots :
                (requests'[i] # requests[i] /\ requests'[i].pc = "done"
                    /\ requests'[i].response.status # 200) => store' = store
          /\ store' # store =>
                \E i \in Slots : /\ requests[i].pc = "write"
                                 /\ requests'[i].pc = "done"
                                 /\ requests'[i].response.status = 200]_vars

\* Both slots hold runs that have answered without 200, one of them 500
\* after StoreRetries rejected writes of a new entry, and the blob is
\* the one an earlier request wrote.
C40_Witness ==
    /\ store # NoBlob
    /\ \A i \in Slots : EndedWithout200(i)
    /\ \E i \in Slots :
          /\ requests[i].response.status = 500
          /\ requests[i].writeFailed = StoreRetries
          /\ \A k \in 1 .. Len(ScoresOf(store)) : ScoresOf(store)[k].id # requests[i].n

\* The order of the leaderboard: score descending, timestamp ascending, and
\* on full ties the entry of the request processed earlier first.
Outranks(a, b) ==
    \/ a.score > b.score
    \/ a.score = b.score /\ a.timestamp < b.timestamp
    \/ a.score = b.score /\ a.timestamp = b.timestamp /\ a.id < b.id

\* The entries of blob are the best of the set all under Outranks:
\* LeaderboardSize of them, or all.
BestOf(blob, all) ==
    /\ EntriesOf(ScoresOf(blob)) \subseteq all
    /\ Len(ScoresOf(blob)) = Min(Cardinality(all), LeaderboardSize)
    /\ \A k \in 1 .. Len(ScoresOf(blob)) - 1 :
          Outranks(ScoresOf(blob)[k], ScoresOf(blob)[k + 1])
    /\ \A x \in all \ EntriesOf(ScoresOf(blob)) :
          Cardinality({y \in EntriesOf(ScoresOf(blob)) : Outranks(y, x)}) = LeaderboardSize

\* C39: with the requests processed one at a time, the blob changes only
\* when the request being processed is accepted, and the list it then holds
\* is the best LeaderboardSize (or all) of the entries it held and the new
\* entry, in the order of Outranks: a stored entry is kept as it is unless
\* LeaderboardSize entries outrank it.  By induction from the empty store the
\* list is the best of all accepted submissions.
C39_StoreKeepsTheBest ==
    [][store' # store =>
          \E i \in Slots :
              /\ requests[i].pc = "write"
              /\ requests'[i].response.status = 200
              /\ BestOf(store', EntriesOf(ScoresOf(store))
                                  \cup {NewEntry(requests[i].data, requests[i].n)})]_vars

\* The blob is full, the request processed last was accepted and is not in
\* it, and the two entries it holds tie on score and timestamp, the one
\* processed earlier first.
C39_Witness ==
    /\ OneAtATime
    /\ Len(ScoresOf(store)) = LeaderboardSize
    /\ ScoresOf(store)[1].score = ScoresOf(store)[2].score
    /\ ScoresOf(store)[1].timestamp = ScoresOf(store)[2].timestamp
    /\ ScoresOf(store)[1].id < ScoresOf(store)[2].id
    /\ \E i \in Slots :
          /\ requests[i].pc = "done"
          /\ requests[i].response.status = 200
          /\ requests[i].n = Len(arrivals)
          /\ \A e \in EntriesOf(ScoresOf(store)) : e.id # requests[i].n

\* The run in slot j of submit-score has answered 200 with a rank.
RankedSubmission(j) ==
    /\ requests[j].pc = "done"
    /\ requests[j].response.status = 200
    /\ requests[j].response.rank # NoRank

\* get-leaderboard answers the run in slot i with 200 in this step.
QueryAnswered(i) ==
    /\ queries'[i] # queries[i]
    /\ queries'[i].pc = "done"
    /\ queries'[i].response.status = 200

\* C37: once a submission has been answered 200 with rank r, every list of
\* scores get-leaderboard answers with has the entry of that submission at
\* position r.
C37_SnapshotHoldsEntryAtRank ==
    [][\A j \in Slots, i \in QuerySlots :
          (RankedSubmission(j) /\ QueryAnswered(i)) =>
              /\ Len(queries'[i].response.scores) >= requests[j].response.rank
              /\ queries'[i].response.scores[requests[j].response.rank].id
                    = requests[j].n]_vars

\* A submission has been answered with a rank and the cache, which is fresh,
\* was read before the entry was written.
StaleCacheAfterRank ==
    /\ \E j \in Slots : RankedSubmission(j)
    /\ cachedData # NoCache
    /\ cachedData # store
    /\ CacheIsFresh(cachedData, cacheTimestamp, serverNow)

\* The call of Game.gameOver in slot p has shown the loading indicator and
\* has not yet called UI.showLeaderboard.
PanelLoading(p) == paths[p].pc \in {"submitting", "fetching"}

\* C33: after a game is over, every call of Game.gameOver that has shown the
\* loading indicator comes to call UI.showLeaderboard, with the scores or
\* with an error, unless the player starts a new game first (Game.start
\* hides the panel).
C33_PanelLeavesLoading ==
    \A p \in PathSlots :
        (PanelLoading(p) /\ ~gameState.isPlaying)
            ~> (~PanelLoading(p) \/ gameState.isPlaying)

====
